---- MODULE Spec2Model ----
(***************************************************************************)
(* The entity store of CAD Sketcher (SlvsEntities): ten slabs of entities  *)
(* addressed by integer handles, creation by add_<kind>, lookup by get,    *)
(* removal with swap-to-end compaction and the rewrite of every reference  *)
(* to the moved entity (update_pointers), and the store's origin elements. *)
(***************************************************************************)
EXTENDS Integers, Sequences, FiniteSets, TLC

VARIABLES sse, adds, last, global_data, bpy, ssc, data

vars == <<sse, adds, last, global_data, bpy, ssc, data>>

(***************************************************************************)
(* Bounds of the model.                                                    *)
(***************************************************************************)
\* Entities created by add_<kind> after scene initialisation, over a run.
MaxAdds == 4

\* The longest coordinate argument given to add_point_3d.
MaxCoLen == 4

\* The most candidate intersections the offsets of two segments have in a
\* run of the bevel operator.
MaxCandidates == 2

\* The largest coordinate of the locations SlvsLine2D.intersect is
\* exercised on, in units of a tenth of its rounding precision.
MaxMicro == 6

\* The most elements _get_intersections is given: main gives it four.
MaxElements == 4

\* The most scenes of a file do_versioning is run on.
MaxScenes == 2

\* The most angle constraints of a scene.
MaxAngles == 1

\* Slot indices the handle codec is exercised on: 0..MaxSlotSample and the
\* same number of slots at the top of the 20-bit range.
MaxSlotSample == 3

(***************************************************************************)
(* Handle codec (utilities/index.py, used by SlvsEntities._set_index).     *)
(***************************************************************************)
TypeShiftNarrow == 4 * 4

\* Width of the slot field of a handle: "type_index << 20 | local_index".
TypeShift == 20

\* Number of entity kinds a handle can name: a 4-bit type index.
TypeBits == 4

Pow2(n) == 2 ^ n

\* Python's a << b on an int.
ShiftLeft(a, b) == a * Pow2(b)

\* Python's a >> b on an int: floor division, also for a negative a.
ShiftRight(a, b) == a \div Pow2(b)

\* Python's a | b, bit by bit, for non-negative a and b.
RECURSIVE BitOr(_, _)
BitOr(a, b) ==
    IF a = 0 THEN b
    ELSE IF b = 0 THEN a
    ELSE (IF (a % 2 = 1) \/ (b % 2 = 1) THEN 1 ELSE 0)
         + 2 * BitOr(a \div 2, b \div 2)

\* Python's a & (2^bits - 1): the low bits of a, also for a negative a.
LowBits(a, bits) == a % Pow2(bits)

assemble_index(type_index, local_index) ==
    BitOr(ShiftLeft(type_index, TypeShift), local_index)

breakdown_index(index) ==
    <<ShiftRight(index, TypeShift), LowBits(index, TypeShift)>>

(***************************************************************************)
(* The kinds of entity and their reference fields.                         *)
(***************************************************************************)
\* SlvsEntities.entities: the position of a class is its type index + 1.
entities ==
    <<"SlvsPoint3D", "SlvsLine3D", "SlvsNormal3D", "SlvsWorkplane",
      "SlvsSketch", "SlvsPoint2D", "SlvsLine2D", "SlvsNormal2D",
      "SlvsArc", "SlvsCircle">>

\* SlvsEntities._entity_collections, in the same order.
_entity_collections ==
    <<"points3D", "lines3D", "normals3D", "workplanes", "sketches",
      "points2D", "lines2D", "normals2D", "arcs", "circles">>

TypeIndices == 0 .. (Len(entities) - 1)

\* SlvsEntities._type_index: entities.index(type(entity)).
_type_index(e) == (CHOOSE n \in 1 .. Len(entities) : entities[n] = e.type) - 1

\* The fields named *_i of each class, one per slvs_entity_pointer
\* declaration; add_<kind> assigns each of them.
RefFields(type) ==
    CASE type = "SlvsPoint3D"   -> {}
      [] type = "SlvsLine3D"    -> {"p1_i", "p2_i"}
      [] type = "SlvsNormal3D"  -> {}
      [] type = "SlvsWorkplane" -> {"p1_i", "nm_i"}
      [] type = "SlvsSketch"    -> {"wp_i"}
      [] type = "SlvsPoint2D"   -> {"sketch_i"}
      [] type = "SlvsLine2D"    -> {"p1_i", "p2_i", "sketch_i"}
      [] type = "SlvsNormal2D"  -> {"sketch_i"}
      [] type = "SlvsArc"       -> {"nm_i", "ct_i", "p1_i", "p2_i", "sketch_i"}
      [] type = "SlvsCircle"    -> {"nm_i", "ct_i", "sketch_i"}

\* hasattr(self, "sketch"): the 2D classes.
is_2d(e) == "sketch_i" \in DOMAIN e.refs

is_3d(e) == ~is_2d(e)

\* hasattr(self, "target_object"): only a sketch has a target object.
HasTargetObject(e) == e.type = "SlvsSketch"

\* No object: an unset target_object, and None as a result.
None == [none |-> TRUE]

(***************************************************************************)
(* Entities and the store.  An entity is a record; uid and owner are       *)
(* history variables of the model (the identity of the object: its type    *)
(* index and its rank among the entities ever added to its collection;     *)
(* and the uid of the sketch a 2D entity was created in), which no         *)
(* operation of the code reads.  So are the entity's field tagged          *)
(* (tag_update has been called on it and it has not been rebuilt since)    *)
(* and the store's field created: the number of entities ever added to     *)
(* each collection.                                                        *)
(***************************************************************************)
\* A freshly added collection item: the property defaults of
\* SlvsGenericEntity (slvs_index -1, flags unset) and of every pointer (-1).
\* The uid of no entity.
NoUid == <<-1, 0>>

NewEntity(type, uid) ==
    [uid |-> uid, type |-> type, slvs_index |-> -1,
     fixed |-> FALSE, origin |-> FALSE, dirty |-> TRUE, visible |-> TRUE,
     refs |-> [f \in RefFields(type) |-> -1],
     target_object |-> None, owner |-> NoUid, tagged |-> FALSE]

\* The names of the store's own pointers.
OriginPointers ==
    {"origin", "origin_axis_X", "origin_axis_Y", "origin_axis_Z",
     "origin_plane_XY", "origin_plane_XZ", "origin_plane_YZ"}

\* A store right after construction: empty collections, unset pointers.
EmptyStore ==
    [slabs |-> [t \in TypeIndices |-> <<>>],
     ptrs |-> [n \in OriginPointers |-> -1],
     created |-> [t \in TypeIndices |-> 0]]

\* An exception raised instead of a result.
Raise(exc) == [raised |-> exc]

IsRaise(r) == "raised" \in DOMAIN r

\* bpy collection: item i (0-based) of a collection; IndexError outside it.
CollItem(list, i) ==
    IF i >= 0 /\ i < Len(list) THEN list[i + 1] ELSE Raise("IndexError")

\* bpy collection.add(): a new item at the end.
CollAdd(list, e) == Append(list, e)

\* bpy collection.remove(i): item i is deleted, the later items shift down.
CollRemove(list, i) == SubSeq(list, 1, i) \o SubSeq(list, i + 2, Len(list))

\* bpy collection.move(src, dst): the item at src is taken out and put in at dst.
CollMove(list, src, dst) ==
    LET item == list[src + 1]
        rest == CollRemove(list, src)
    IN  SubSeq(rest, 1, dst) \o <<item>> \o SubSeq(rest, dst + 1, Len(rest))

\* SlvsEntities._get_list_and_index: the collection (is_none: None instead
\* of a collection) and the local index.
_get_list_and_index(st, index) ==
    LET type_index == breakdown_index(index)[1]
        local_index == breakdown_index(index)[2]
    IN  IF type_index < 0 \/ type_index >= Len(_entity_collections)
        THEN [is_none |-> TRUE, list |-> <<>>, i |-> local_index]
        ELSE [is_none |-> FALSE, list |-> st.slabs[type_index], i |-> local_index]

\* Python's "not sub_list": None, or a collection without items.
NotList(r) == r.is_none \/ Len(r.list) = 0

getClamped(st, index) ==
    IF index = -1 THEN None
    ELSE LET sub_list == _get_list_and_index(st, index)
             i == _get_list_and_index(st, index).i
         IN  IF NotList(sub_list)
             THEN None
             ELSE IF i >= Len(sub_list.list)
                  THEN CollItem(sub_list.list, Len(sub_list.list) - 1)
                  ELSE CollItem(sub_list.list, i)

\* SlvsEntities.get: the entity with the given handle, or None.
get(st, index) ==
    IF index = -1 THEN None
    ELSE LET sub_list == _get_list_and_index(st, index)
             i == _get_list_and_index(st, index).i
         IN  IF NotList(sub_list) \/ i >= Len(sub_list.list)
             THEN None
             ELSE CollItem(sub_list.list, i)

\* The getter of a pointer declared by slvs_entity_pointer.
Deref(st, index) == IF index = -1 THEN None ELSE get(st, index)

\* The setter of a pointer declared by slvs_entity_pointer.
PtrOf(entity) == IF entity = None THEN -1 ELSE entity.slvs_index

\* SlvsEntities.all: the entities of every collection, in collection order.
RECURSIVE AllFrom(_, _)
AllFrom(st, t) ==
    IF t >= Len(_entity_collections) THEN <<>>
    ELSE st.slabs[t] \o AllFrom(st, t + 1)

all(st) == AllFrom(st, 0)

\* The entities of collection t, and the live entities, as sets.
Items(st, t) == {st.slabs[t][n] : n \in 1 .. Len(st.slabs[t])}

Live(st) == UNION {Items(st, t) : t \in TypeIndices}

(***************************************************************************)
(* The rewrite of references.                                              *)
(***************************************************************************)
entity_update_pointers_skips_target(e, index_old, index_new) ==
    [e EXCEPT !.refs = [f \in DOMAIN e.refs |->
                          IF e.refs[f] = index_old THEN index_new
                          ELSE e.refs[f]]]

\* SlvsGenericEntity.update_pointers on one entity.
entity_update_pointers(e, index_old, index_new) ==
    LET updated == [e EXCEPT !.refs = [f \in DOMAIN e.refs |->
                                         IF e.refs[f] = index_old
                                         THEN index_new
                                         ELSE e.refs[f]]]
    IN  IF HasTargetObject(e) /\ e.target_object # None
           /\ e.target_object.sketch_index = index_old
        THEN [updated EXCEPT !.target_object = [sketch_index |-> index_new]]
        ELSE updated

\* model.utilities.update_pointers: every entity of the scene rewrites its
\* references.
update_pointers(st, index_old, index_new) ==
    [st EXCEPT !.slabs =
        [t \in TypeIndices |->
            [n \in 1 .. Len(st.slabs[t]) |->
                entity_update_pointers(st.slabs[t][n], index_old, index_new)]]]

(***************************************************************************)
(* Creation.                                                               *)
(***************************************************************************)
\* The last item of collection t becomes e.
SetLast(st, t, e) ==
    [st EXCEPT !.slabs[t] = [@ EXCEPT ![Len(@)] = e]]

LastOf(st, t) == st.slabs[t][Len(st.slabs[t])]

_set_index_without_type(st, t) ==
    SetLast(st, t, [LastOf(st, t) EXCEPT
                      !.slvs_index = Len(st.slabs[t]) - 1])

_set_index_by_length(st, t) ==
    SetLast(st, t, [LastOf(st, t) EXCEPT
                      !.slvs_index = assemble_index(t, Len(st.slabs[t]))])

\* SlvsEntities._set_index: the entity just added to its collection gets the
\* handle of its type index and of the last position of the collection.
_set_index(st, t) ==
    LET entity == LastOf(st, t)
        type_index == _type_index(entity)
        sub_list == st.slabs[type_index]
        local_index == Len(sub_list) - 1
    IN  SetLast(st, t, [entity EXCEPT
                          !.slvs_index = assemble_index(type_index, local_index)])

\* The common shape of add_<kind>: collection.add(), the assignment of the
\* pointers (and, for the model, of the owning sketch), then _set_index.
AddEntity(st, t, refs, owner) ==
    LET item == [NewEntity(entities[t + 1], <<t, st.created[t] + 1>>) EXCEPT
                   !.refs = refs, !.owner = owner]
    IN  _set_index([st EXCEPT !.slabs[t] = CollAdd(@, item),
                              !.created[t] = @ + 1], t)

\* The pointers of a class that declares none.
NoRefs == [f \in {} |-> -1]

\* A coordinate argument: whether it has __len__, and len() of it.  A
\* scalar has no length; a tuple or Vector has.
Co(n) == [has_len |-> TRUE, len |-> n]

Scalar == [has_len |-> FALSE, len |-> -1]

\* The result of add_point_3d: the store after it and the exception it
\* raised ("none": it returned the point, the last of its collection).
AddResult(st, raised) == [sse |-> st, raised |-> raised]

add_point_3d_checks_late(st, co) ==
    IF ~co.has_len \/ co.len # 3
    THEN AddResult(AddEntity(st, 0, NoRefs, 0), "TypeError")
    ELSE AddResult(AddEntity(st, 0, NoRefs, 0), "none")

\* SlvsEntities.add_point_3d: a co that has no length, or one other than
\* 3, is a TypeError raised before points3D.add().
add_point_3d(st, co) ==
    IF ~co.has_len \/ co.len # 3
    THEN AddResult(st, "TypeError")
    ELSE AddResult(AddEntity(st, 0, NoRefs, 0), "none")

add_line_3d(st, p1, p2) ==
    AddEntity(st, 1, [p1_i |-> PtrOf(p1), p2_i |-> PtrOf(p2)], 0)

add_normal_3d(st) == AddEntity(st, 2, NoRefs, 0)

add_workplane(st, p1, nm) ==
    AddEntity(st, 3, [p1_i |-> PtrOf(p1), nm_i |-> PtrOf(nm)], 0)

add_sketch(st, wp) ==
    AddEntity(st, 4, [wp_i |-> PtrOf(wp)], 0)

add_point_2d(st, sketch) ==
    AddEntity(st, 5, [sketch_i |-> PtrOf(sketch)], sketch.uid)

add_line_2d(st, p1, p2, sketch) ==
    AddEntity(st, 6,
              [p1_i |-> PtrOf(p1), p2_i |-> PtrOf(p2),
               sketch_i |-> PtrOf(sketch)], sketch.uid)

add_normal_2d(st, sketch) ==
    AddEntity(st, 7, [sketch_i |-> PtrOf(sketch)], sketch.uid)

add_arc(st, nm, ct, p1, p2, sketch) ==
    AddEntity(st, 8,
              [nm_i |-> PtrOf(nm), ct_i |-> PtrOf(ct), p1_i |-> PtrOf(p1),
               p2_i |-> PtrOf(p2), sketch_i |-> PtrOf(sketch)], sketch.uid)

add_circle(st, nm, ct, sketch) ==
    AddEntity(st, 9,
              [nm_i |-> PtrOf(nm), ct_i |-> PtrOf(ct),
               sketch_i |-> PtrOf(sketch)], sketch.uid)

(***************************************************************************)
(* Removal.                                                                *)
(***************************************************************************)
\* The result of remove: the store after it, the exception it raised
\* ("none": it returned), and the handle the moved entity had before
\* (-1: no entity was moved).
RemoveResult(st, raised, moved_from) ==
    [sse |-> st, raised |-> raised, moved_from |-> moved_from]

CompactNoRewrite(st, index) ==
    LET t == breakdown_index(index)[1]
        i == _get_list_and_index(st, index).i
        removed == [st EXCEPT !.slabs[t] = CollRemove(@, i)]
        last_index == Len(removed.slabs[t]) - 1
    IN  IF last_index < 0 \/ i > last_index
        THEN RemoveResult(removed, "none", -1)
        ELSE LET moved == IF i # last_index
                          THEN [removed EXCEPT
                                  !.slabs[t] = CollMove(@, last_index, i)]
                          ELSE removed
                 new_item == moved.slabs[t][i + 1]
             IN  RemoveResult(
                     [moved EXCEPT !.slabs[t][i + 1].slvs_index = index],
                     "none", new_item.slvs_index)

CompactNoMove(st, index) ==
    LET t == breakdown_index(index)[1]
        i == _get_list_and_index(st, index).i
        removed == [st EXCEPT !.slabs[t] = CollRemove(@, i)]
        last_index == Len(removed.slabs[t]) - 1
    IN  IF last_index < 0 \/ i > last_index
        THEN RemoveResult(removed, "none", -1)
        ELSE LET new_item == removed.slabs[t][i + 1]
                 rewritten == update_pointers(removed, new_item.slvs_index, index)
             IN  RemoveResult(
                     [rewritten EXCEPT !.slabs[t][i + 1].slvs_index = index],
                     "none", new_item.slvs_index)

\* SlvsEntities.remove, from entity_list.remove(i) on.
Compact(st, index) ==
    LET t == breakdown_index(index)[1]
        i == _get_list_and_index(st, index).i
        removed == [st EXCEPT !.slabs[t] = CollRemove(@, i)]
        last_index == Len(removed.slabs[t]) - 1
    IN  IF last_index < 0 \/ i > last_index
        THEN RemoveResult(removed, "none", -1)
        ELSE LET moved == IF i # last_index
                          THEN [removed EXCEPT
                                  !.slabs[t] = CollMove(@, last_index, i)]
                          ELSE removed
                 new_item == moved.slabs[t][i + 1]
                 rewritten == update_pointers(moved, new_item.slvs_index, index)
             IN  RemoveResult(
                     [rewritten EXCEPT !.slabs[t][i + 1].slvs_index = index],
                     "none", new_item.slvs_index)

removeIgnoresOrigin(st, index) ==
    IF get(st, index) = None
    THEN RemoveResult(st, "AttributeError", -1)
    ELSE Compact(st, index)

\* SlvsEntities.remove.  self.get(index).origin on None is an
\* AttributeError.
remove(st, index) ==
    IF get(st, index) = None
    THEN RemoveResult(st, "AttributeError", -1)
    ELSE IF get(st, index).origin
         THEN RemoveResult(st, "none", -1)
         ELSE Compact(st, index)

(***************************************************************************)
(* The origin elements.                                                    *)
(***************************************************************************)
\* set_origin_props on the last item of collection t.
set_origin_props(st, t) ==
    SetLast(st, t, [LastOf(st, t) EXCEPT !.fixed = TRUE, !.origin = TRUE])

\* One step of ensure_origin_elements: when the pointer resolves to
\* nothing, an entity is added, flagged, and the pointer set to it.
OriginPoint(st) ==
    IF Deref(st, st.ptrs["origin"]) # None THEN st
    ELSE LET made == set_origin_props(add_point_3d(st, Co(3)).sse, 0)
         IN  [made EXCEPT !.ptrs["origin"] = PtrOf(LastOf(made, 0))]

OriginAxisUnguarded(st, name) ==
    LET made == set_origin_props(add_normal_3d(st), 2)
    IN  [made EXCEPT !.ptrs[name] = PtrOf(LastOf(made, 2))]

OriginAxis(st, name) ==
    IF Deref(st, st.ptrs[name]) # None THEN st
    ELSE LET made == set_origin_props(add_normal_3d(st), 2)
         IN  [made EXCEPT !.ptrs[name] = PtrOf(LastOf(made, 2))]

OriginPlane(st, nm_name, wp_name) ==
    IF Deref(st, st.ptrs[wp_name]) # None THEN st
    ELSE LET made == set_origin_props(
                        add_workplane(st, Deref(st, st.ptrs["origin"]),
                                      Deref(st, st.ptrs[nm_name])), 3)
         IN  [made EXCEPT !.ptrs[wp_name] = PtrOf(LastOf(made, 3))]

\* SlvsEntities.ensure_origin_elements.
ensure_origin_elements(st) ==
    LET s1 == OriginPoint(st)
        s2 == OriginAxis(s1, "origin_axis_X")
        s3 == OriginAxis(s2, "origin_axis_Y")
        s4 == OriginAxis(s3, "origin_axis_Z")
        s5 == OriginPlane(s4, "origin_axis_X", "origin_plane_YZ")
        s6 == OriginPlane(s5, "origin_axis_Y", "origin_plane_XZ")
    IN  OriginPlane(s6, "origin_axis_Z", "origin_plane_XY")

(***************************************************************************)
(* The dirty flag.                                                         *)
(***************************************************************************)
\* The pointers dependencies() of a class reads, in the order of the list
\* it returns.  SlvsLine2D: [self.p1, self.p2, self.sketch]; a class
\* without pointers has no dependencies.
DependencyFields(type) ==
    CASE type = "SlvsPoint3D"   -> <<>>
      [] type = "SlvsLine3D"    -> <<"p1_i", "p2_i">>
      [] type = "SlvsNormal3D"  -> <<>>
      [] type = "SlvsWorkplane" -> <<"p1_i", "nm_i">>
      [] type = "SlvsSketch"    -> <<"wp_i">>
      [] type = "SlvsPoint2D"   -> <<"sketch_i">>
      [] type = "SlvsLine2D"    -> <<"p1_i", "p2_i", "sketch_i">>
      [] type = "SlvsNormal2D"  -> <<"sketch_i">>
      [] type = "SlvsArc"       -> <<"nm_i", "ct_i", "p1_i", "p2_i", "sketch_i">>
      [] type = "SlvsCircle"    -> <<"nm_i", "ct_i", "sketch_i">>

\* e.dependencies(): what each pointer resolves to (None when it resolves
\* to nothing).
dependencies(st, e) ==
    [n \in 1 .. Len(DependencyFields(e.type)) |->
        Deref(st, e.refs[DependencyFields(e.type)[n]])]

\* The result of a property or method: the value returned, or the
\* exception raised in its place.
Return(value) == [raised |-> "none", value |-> value]

\* "for e in deps: if e.dirty: return True", from the n-th dependency on;
\* None has no attribute dirty.
RECURSIVE AnyDirty(_, _)
AnyDirty(deps, n) ==
    IF n > Len(deps) THEN Return(FALSE)
    ELSE IF deps[n] = None THEN Raise("AttributeError")
    ELSE IF deps[n].dirty THEN Return(TRUE)
    ELSE AnyDirty(deps, n + 1)

\* SlvsGenericEntity.is_dirty (getter).
is_dirty(st, e) ==
    IF e.dirty THEN Return(TRUE)
    ELSE IF Len(DependencyFields(e.type)) = 0 THEN Return(FALSE)
    ELSE AnyDirty(dependencies(st, e), 1)

\* The entity at slot n of collection t with its own flag set to value:
\* SlvsGenericEntity.is_dirty (setter).
set_is_dirty(st, t, n, value) == [st EXCEPT !.slabs[t][n].dirty = value]

\* The result of a method that changes the scene: the store and
\* global_data after it, and the exception it raised.
Effect(st, gd, raised) == [sse |-> st, global_data |-> gd, raised |-> raised]

\* SlvsGenericEntity.tag_update on the entity at slot n of collection t.
tag_update(st, gd, t, n) ==
    LET r == is_dirty(st, st.slabs[t][n])
        tagged == [st EXCEPT !.slabs[t][n].tagged = TRUE]
    IN  IF r.raised # "none" THEN Effect(st, gd, r.raised)
        ELSE IF ~r.value
             THEN Effect(set_is_dirty(tagged, t, n, TRUE), gd, "none")
             ELSE Effect(tagged, gd, "none")

\* The batch batch_for_shader builds from the geometry of entity e.
batch_for_shader(e) == [built_from |-> e.uid]

\* SlvsGenericEntity._batch (getter) of entity e: the batch stored under
\* e's handle, or None.
_batch(gd, e) ==
    IF \E b \in gd.batches : b[1] = e.slvs_index
    THEN (CHOOSE b \in gd.batches : b[1] = e.slvs_index)[2]
    ELSE None

\* SlvsGenericEntity._batch (setter): global_data.batches[slvs_index] = value.
set_batch(gd, e, value) ==
    [gd EXCEPT !.batches = {b \in @ : b[1] # e.slvs_index}
                           \cup {<<e.slvs_index, value>>}]

\* update() of the entity at slot n of collection t (SlvsLine2D.update):
\* nothing in background mode; else the batch is rebuilt from the
\* locations of p1 and p2 and stored under the entity's handle, and the
\* own flag cleared.
update(st, gd, t, n, background) ==
    LET e == st.slabs[t][n]
    IN  IF background THEN Effect(st, gd, "none")
        ELSE IF e.type = "SlvsLine2D"
                /\ (Deref(st, e.refs["p1_i"]) = None
                    \/ Deref(st, e.refs["p2_i"]) = None)
             THEN Effect(st, gd, "AttributeError")
             ELSE Effect(set_is_dirty([st EXCEPT !.slabs[t][n].tagged = FALSE],
                                      t, n, FALSE),
                         set_batch(gd, e, batch_for_shader(e)),
                         "none")

(***************************************************************************)
(* Versioning: the type index of every entity is recalculated after the    *)
(* order of SlvsEntities.entities has changed.                             *)
(***************************************************************************)
\* SlvsEntities.recalc_type_index on the entity at slot n of collection t:
\* the type index of its class, the local index it had.
recalc_type_index(st, t, n) ==
    LET entity == st.slabs[t][n]
        local_index == breakdown_index(entity.slvs_index)[2]
        type_index == _type_index(entity)
    IN  [st EXCEPT !.slabs[t][n].slvs_index =
                     BitOr(ShiftLeft(type_index, TypeShift), local_index)]

\* The body of the loop of recalc_pointers for the entity at slot n of
\* collection t.
recalc_one(st, t, n) ==
    LET i == st.slabs[t][n].slvs_index
        recalculated == recalc_type_index(st, t, n)
    IN  IF i # recalculated.slabs[t][n].slvs_index
        THEN update_pointers(recalculated, i,
                             recalculated.slabs[t][n].slvs_index)
        ELSE recalculated

\* "for e in reversed(entities)", from slot n of collection t down to the
\* first slot of the first collection.
RECURSIVE RecalcFrom(_, _, _)
RecalcFrom(st, t, n) ==
    IF t < 0 THEN st
    ELSE IF n < 1
         THEN IF t = 0 THEN st
              ELSE RecalcFrom(st, t - 1, Len(st.slabs[t - 1]))
         ELSE RecalcFrom(recalc_one(st, t, n), t, n - 1)

\* versioning.recalc_pointers.
recalc_pointers(st) ==
    RecalcFrom(st, Len(_entity_collections) - 1,
               Len(st.slabs[Len(_entity_collections) - 1]))

(***************************************************************************)
(* Versioning: do_versioning brings the scenes of a loaded file up to the  *)
(* version of the add-on.  A scene is scene.sketcher: whether its version  *)
(* is set, the version, its entities (a store) and its angle constraints   *)
(* (setting, is_reference).  ss is bpy.data.scenes, c the position of      *)
(* bpy.context.scene in it.                                                *)
(***************************************************************************)
\* bl_info["version"].
get_addon_version == <<0, 27, 1>>

\* "a < b" of two version tuples.
VersionLess(a, b) ==
    \/ a[1] < b[1]
    \/ (a[1] = b[1] /\ a[2] < b[2])
    \/ (a[1] = b[1] /\ a[2] = b[2] /\ a[3] < b[3])

\* scene.sketcher of one scene.
Scene(is_set, version, store, angle) ==
    [version_set |-> is_set, version |-> version, entities |-> store,
     angle |-> angle]

\* No file is loaded.
NoScenes == [scenes |-> <<>>, context_scene |-> 0]

\* The getter of the pointer name of the entities of scene s: the entity
\* its handle resolves to, in the store of scene s itself (own) or in the
\* store of context.scene.
Pointer(ss, s, c, own, name) ==
    Deref(ss[IF own THEN s ELSE c].entities, ss[s].entities.ptrs[name])

\* "setattr(self, name, e)" on the entities of scene s, e the entity last
\* added to collection t of context.scene's entities.
PointToLast(ss, s, c, t, name) ==
    [ss EXCEPT ![s].entities.ptrs[name] = PtrOf(LastOf(ss[c].entities, t))]

\* ensure_origin_elements of the entities of scene s, the origin point:
\* the point is added to context.scene's entities.
EnsureOrigin(ss, s, c, own) ==
    IF Pointer(ss, s, c, own, "origin") # None THEN ss
    ELSE LET made == [ss EXCEPT ![c].entities =
                         set_origin_props(add_point_3d(@, Co(3)).sse, 0)]
         IN  PointToLast(made, s, c, 0, "origin")

\* The body of the loop over the axes.
EnsureAxis(ss, s, c, own, name) ==
    IF Pointer(ss, s, c, own, name) # None THEN ss
    ELSE LET made == [ss EXCEPT ![c].entities =
                         set_origin_props(add_normal_3d(@), 2)]
         IN  PointToLast(made, s, c, 2, name)

\* The body of the loop over the workplanes.
EnsurePlane(ss, s, c, own, nm_name, wp_name) ==
    IF Pointer(ss, s, c, own, wp_name) # None THEN ss
    ELSE LET made == [ss EXCEPT ![c].entities =
                         set_origin_props(
                             add_workplane(@, Pointer(ss, s, c, own, "origin"),
                                           Pointer(ss, s, c, own, nm_name)), 3)]
         IN  PointToLast(made, s, c, 3, wp_name)

\* SlvsEntities.ensure_origin_elements(context) of the entities of scene
\* s: "sse = context.scene.sketcher.entities" is the store added to,
\* self the store whose pointers are read and set.
EnsureOriginElementsOf(ss, s, c, own) ==
    LET s1 == EnsureOrigin(ss, s, c, own)
        s2 == EnsureAxis(s1, s, c, own, "origin_axis_X")
        s3 == EnsureAxis(s2, s, c, own, "origin_axis_Y")
        s4 == EnsureAxis(s3, s, c, own, "origin_axis_Z")
        s5 == EnsurePlane(s4, s, c, own, "origin_axis_X", "origin_plane_YZ")
        s6 == EnsurePlane(s5, s, c, own, "origin_axis_Y", "origin_plane_XZ")
    IN  EnsurePlane(s6, s, c, own, "origin_axis_Z", "origin_plane_XY")

\* "if version < (0, 23, 0)": the pointers origin_axis_X and
\* origin_plane_YZ of the scene are set to None and its origin elements
\* ensured.
RenewOrigin(ss, s, c, own) ==
    EnsureOriginElementsOf(
        [ss EXCEPT ![s].entities.ptrs["origin_axis_X"] = -1,
                   ![s].entities.ptrs["origin_plane_YZ"] = -1],
        s, c, own)

\* "if version < (0, 26, 0)": every angle constraint of context.scene that
\* has its setting and is no reference is made reference only.
MakeReferenceOnly(ss, c) ==
    [ss EXCEPT ![c].angle =
        [n \in 1 .. Len(@) |->
            IF @[n].setting /\ ~@[n].is_reference
            THEN [@[n] EXCEPT !.is_reference = TRUE]
            ELSE @[n]]]

\* The body of the loop of do_versioning for scene s.
VersionScene(ss, s, c, own) ==
    LET props == ss[s]
    IN  IF ~props.version_set THEN ss
        ELSE IF VersionLess(get_addon_version, props.version) THEN ss
        ELSE LET renewed == IF VersionLess(props.version, <<0, 23, 0>>)
                            THEN RenewOrigin(ss, s, c, own)
                            ELSE ss
             IN  IF VersionLess(props.version, <<0, 26, 0>>)
                 THEN MakeReferenceOnly(renewed, c)
                 ELSE renewed

\* "for scene in bpy.data.scenes", from scene s on.
RECURSIVE VersionFrom(_, _, _, _)
VersionFrom(ss, s, c, own) ==
    IF s > Len(ss) THEN ss
    ELSE VersionFrom(VersionScene(ss, s, c, own), s + 1, c, own)

\* versioning.do_versioning.
do_versioning(ss, c, own) == VersionFrom(ss, 1, c, own)

(***************************************************************************)
(* Selection.  A context is what the methods read of bpy.context and the   *)
(* preferences: scene.sketcher.show_origin, the experimental preference    *)
(* all_entities_selectable, and scene.sketcher.active_sketch (an entity,   *)
(* or None).                                                               *)
(***************************************************************************)
Context(show_origin, all_entities_selectable, active_sketch) ==
    [show_origin |-> show_origin,
     all_entities_selectable |-> all_entities_selectable,
     active_sketch |-> active_sketch]

\* SlvsGenericEntity.selected (setter) on the entity with handle
\* slvs_index: global_data.selected after it.
set_selected(list, slvs_index, value) ==
    IF \E i \in 1 .. Len(list) : list[i] = slvs_index
    THEN LET i == CHOOSE k \in 1 .. Len(list) :
                      /\ list[k] = slvs_index
                      /\ \A j \in 1 .. (k - 1) : list[j] # slvs_index
         IN  IF ~value
             THEN SubSeq(list, 1, i - 1) \o SubSeq(list, i + 1, Len(list))
             ELSE list
    ELSE IF value THEN Append(list, slvs_index) ELSE list

\* SlvsGenericEntity.hover (setter) on the entity with handle slvs_index:
\* global_data.hover after it.
set_hover(slvs_index, value) == IF value THEN slvs_index ELSE -1

\* SlvsGenericEntity.is_visible.  The sketch of a 2D entity is asked
\* first; None has no method is_visible.
is_visible(st, e, context) ==
    IF e.origin THEN Return(context.show_origin)
    ELSE IF is_2d(e)
         THEN IF Deref(st, e.refs["sketch_i"]) = None
              THEN Raise("AttributeError")
              ELSE Return(Deref(st, e.refs["sketch_i"]).visible /\ e.visible)
         ELSE Return(e.visible)

\* SlvsGenericEntity.is_active.
is_active(st, e, active_sketch) ==
    IF is_2d(e)
    THEN Return(Deref(st, e.refs["sketch_i"]) = active_sketch)
    ELSE Return(active_sketch = None)

\* SlvsGenericEntity.is_selectable.
is_selectable(st, e, context) ==
    LET v == is_visible(st, e, context)
        active_sketch == context.active_sketch
    IN  IF v.raised # "none" THEN v
        ELSE IF ~v.value THEN Return(FALSE)
        ELSE IF context.all_entities_selectable THEN Return(TRUE)
        ELSE IF active_sketch # None /\ is_2d(e)
             THEN IF Deref(st, e.refs["sketch_i"]) = None
                  THEN Raise("AttributeError")
                  ELSE Return(Deref(st, active_sketch.refs["wp_i"])
                              = Deref(st, Deref(st, e.refs["sketch_i"]).refs["wp_i"]))
             ELSE is_active(st, e, active_sketch)

\* "[e for e in items if e.is_selectable(context)]" from the n-th item
\* on; None has no method is_selectable.
RECURSIVE Selectable(_, _, _, _)
Selectable(st, items, n, context) ==
    IF n > Len(items) THEN Return(<<>>)
    ELSE IF items[n] = None THEN Raise("AttributeError")
    ELSE LET keep == is_selectable(st, items[n], context)
             rest == Selectable(st, items, n + 1, context)
         IN  IF keep.raised # "none" THEN keep
             ELSE IF rest.raised # "none" THEN rest
             ELSE IF keep.value THEN Return(<<items[n]>> \o rest.value)
             ELSE rest

\* SlvsEntities.selected: the entities the selected handles resolve to,
\* in the order of global_data.selected, that are selectable.
selected(st, gd, context) ==
    Selectable(st, [n \in 1 .. Len(gd.selected) |-> get(st, gd.selected[n])],
               1, context)

\* "[e for e in self.selected if e.is_active(active_sketch)]".
RECURSIVE Active(_, _, _, _)
Active(st, items, n, active_sketch) ==
    IF n > Len(items) THEN <<>>
    ELSE IF is_active(st, items[n], active_sketch).value
         THEN <<items[n]>> \o Active(st, items, n + 1, active_sketch)
         ELSE Active(st, items, n + 1, active_sketch)

\* SlvsEntities.selected_active.
selected_active(st, gd, context) ==
    LET sel == selected(st, gd, context)
    IN  IF sel.raised # "none" THEN sel
        ELSE Return(Active(st, sel.value, 1, context.active_sketch))

(***************************************************************************)
(* The bevel operator (operators/bevel.py).  The geometry is an input of   *)
(* the operator: the candidate intersections of the four offset elements   *)
(* as _get_intersections finds them, each with its distance to the point   *)
(* and with what is_inside of either segment makes of it, and whether      *)
(* project_point of either segment returns a location for the centre.      *)
(***************************************************************************)
\* A candidate intersection: is_inside(intersection) of the first and of
\* the second segment, and (intersection - self.p1.co).length.
Candidate(inside1, inside2, distance) ==
    [inside1 |-> inside1, inside2 |-> inside2, distance |-> distance]

\* A candidate as an integer: 1 for inside the first segment, 2 for
\* inside the second, 4 for each unit of distance; 0 stands for None.
CandidateCode(c) ==
    (IF c.inside1 THEN 1 ELSE 0) + (IF c.inside2 THEN 2 ELSE 0)
        + 4 * c.distance

\* e.connection_points(): [self.p1, self.p2].
connection_points(st, e) ==
    <<Deref(st, e.refs["p1_i"]), Deref(st, e.refs["p2_i"])>>

\* "[e for e in (*sse.lines2D, *sse.arcs) if point in
\* e.connection_points()]".
connected(st, point) ==
    SelectSeq(st.slabs[6] \o st.slabs[8],
              LAMBDA e : \E n \in 1 .. 2 : connection_points(st, e)[n] = point)

\* hasattr(e, "is_inside"): SlvsLine2D has no such method, an arc has.
HasIsInside(e) == e.type # "SlvsLine2D"

\* _get_offset_elements(entity, offset) reads p1.co and p2.co of a line
\* and ct.co of an arc; None has no attribute co.
OffsetsRaise(st, e) ==
    IF e.type = "SlvsLine2D"
    THEN Deref(st, e.refs["p1_i"]) = None \/ Deref(st, e.refs["p2_i"]) = None
    ELSE Deref(st, e.refs["ct_i"]) = None

\* The first n candidates of found as sorted(..., key=distance) orders
\* them: ascending, candidates of equal distance in the order found.
RECURSIVE SortedPrefix(_, _)
SortedPrefix(found, n) ==
    IF n = 0 THEN <<>>
    ELSE LET s == SortedPrefix(found, n - 1)
             k == Cardinality({i \in 1 .. Len(s) :
                                   s[i].distance <= found[n].distance})
         IN  SubSeq(s, 1, k) \o <<found[n]>> \o SubSeq(s, k + 1, Len(s))

unsorted(found) == found

sorted(found) == SortedPrefix(found, Len(found))

\* The loop over the sorted intersections, from the n-th on: the position
\* of the first that neither segment's is_inside rejects (0: there is
\* none, coords stays None).
RECURSIVE FirstInside(_, _, _, _)
FirstInside(l1, l2, intersections, n) ==
    IF n > Len(intersections) THEN 0
    ELSE IF HasIsInside(l1) /\ ~intersections[n].inside1
         THEN FirstInside(l1, l2, intersections, n + 1)
    ELSE IF HasIsInside(l2) /\ ~intersections[n].inside2
         THEN FirstInside(l1, l2, intersections, n + 1)
    ELSE n

\* e.project_point(coords) returns a location: always for a line
\* (SlvsLine2D.project_point), for an arc when the geometry has one.
Projects(e, defined) == e.type = "SlvsLine2D" \/ defined

\* The result of main: the store after it, the exception it raised, the
\* value it returned, the intersection it chose (coords), and what it
\* left on the operator: the handles of self.connected and, as far as it
\* came, of self.ct, self.points and self.arc.
MainResult(st, raised, value, chosen, segments, made) ==
    [sse |-> st, raised |-> raised, value |-> value, chosen |-> chosen,
     connected |-> segments, made |-> made]

\* The rest of main once coords is set: the centre point is added, the
\* centre projected on both segments, the tangent points and the arc
\* added.
main_from_coords(st, sketch, l1, l2, chosen, defined1, defined2) ==
    LET with_ct == add_point_2d(st, sketch)
        ct == LastOf(with_ct, 5)
        with_p1 == add_point_2d(with_ct, sketch)
        with_p2 == add_point_2d(with_p1, sketch)
        p1 == with_p2.slabs[5][Len(with_p2.slabs[5]) - 1]
        p2 == LastOf(with_p2, 5)
        segments == <<l1.slvs_index, l2.slvs_index>>
        points == <<ct.slvs_index, p1.slvs_index, p2.slvs_index>>
        with_arc ==
            add_arc(with_p2,
                    Deref(with_p2,
                          Deref(with_p2, sketch.refs["wp_i"]).refs["nm_i"]),
                    ct, p1, p2, sketch)
    IN  IF ~Projects(l1, defined1) \/ ~Projects(l2, defined2)
        THEN MainResult(with_ct, "none", FALSE, chosen, segments,
                        <<ct.slvs_index>>)
        ELSE IF Deref(with_p2, sketch.refs["wp_i"]) = None
        THEN MainResult(with_p2, "AttributeError", FALSE, chosen, segments,
                        points)
        ELSE MainResult(with_arc, "none", TRUE, chosen, segments,
                        points \o <<LastOf(with_arc, 8).slvs_index>>)

\* View3D_OT_slvs_bevel.main on the point self.p1 in the sketch
\* self.sketch, with the intersections _get_intersections found.
main_without_count_check(st, sketch, point, found, defined1, defined2) ==
    IF Len(connected(st, point)) # 2
    THEN MainResult(st, "ValueError", FALSE, 0, <<>>, <<>>)
    ELSE LET l1 == connected(st, point)[1]
             l2 == connected(st, point)[2]
             intersections == sorted(found)
             n == FirstInside(l1, l2, intersections, 1)
             segments == <<l1.slvs_index, l2.slvs_index>>
         IN  IF OffsetsRaise(st, l1) \/ OffsetsRaise(st, l2)
             THEN MainResult(st, "AttributeError", FALSE, 0, segments, <<>>)
             ELSE IF n = 0
             THEN MainResult(st, "none", FALSE, 0, segments, <<>>)
             ELSE main_from_coords(st, sketch, l1, l2,
                                   CandidateCode(intersections[n]),
                                   defined1, defined2)

main(st, sketch, point, found, defined1, defined2) ==
    IF Len(connected(st, point)) # 2
    THEN MainResult(st, "none", FALSE, 0, <<>>, <<>>)
    ELSE LET l1 == connected(st, point)[1]
             l2 == connected(st, point)[2]
             intersections == sorted(found)
             n == FirstInside(l1, l2, intersections, 1)
             segments == <<l1.slvs_index, l2.slvs_index>>
         IN  IF OffsetsRaise(st, l1) \/ OffsetsRaise(st, l2)
             THEN MainResult(st, "AttributeError", FALSE, 0, segments, <<>>)
             ELSE IF n = 0
             THEN MainResult(st, "none", FALSE, 0, segments, <<>>)
             ELSE main_from_coords(st, sketch, l1, l2,
                                   CandidateCode(intersections[n]),
                                   defined1, defined2)

\* "setattr(self, ptr, new)" on the entity of handle h: its pointer ptr
\* is set to the handle of new.
SetPointer(st, h, ptr, new) ==
    [st EXCEPT !.slabs[breakdown_index(h)[1]][breakdown_index(h)[2] + 1]
                   .refs[ptr] = PtrOf(new)]

\* e.replace_point(old, new): the first of the pointers p1, p2 that is old
\* is set to new (SlvsLine2D.replace_point; an arc's is taken to do the
\* same).
replace_point_unmatched(st, e, old, new) ==
    SetPointer(st, e.slvs_index, "p1_i", new)

replace_point(st, e, old, new) ==
    IF Deref(st, e.refs["p1_i"]) = old
    THEN SetPointer(st, e.slvs_index, "p1_i", new)
    ELSE IF Deref(st, e.refs["p2_i"]) = old
    THEN SetPointer(st, e.slvs_index, "p2_i", new)
    ELSE st

\* ssc.add_tangent(entity1, entity2, sketch): the constraints with one
\* more, which holds the handles of the three entities.
add_tangent(cs, entity1, entity2, sketch) ==
    Append(cs, [type |-> "tangent", entity1_i |-> PtrOf(entity1),
                entity2_i |-> PtrOf(entity2), sketch_i |-> PtrOf(sketch)])

\* is_entity_referenced(entity, context): the entity is a dependency of an
\* entity or of a constraint.
is_entity_referenced(st, cs, entity) ==
    \/ \E e \in Live(st) :
           \E n \in 1 .. Len(DependencyFields(e.type)) :
               dependencies(st, e)[n] = entity
    \/ \E n \in 1 .. Len(cs) :
           entity.slvs_index \in {cs[n].entity1_i, cs[n].entity2_i,
                                  cs[n].sketch_i}

\* The result of fini: the store and the constraints after it, the
\* exception it raised, and the calls it made that change the scene or
\* solve it, in their order.
FiniResult(st, cs, raised, calls) ==
    [sse |-> st, ssc |-> cs, raised |-> raised, calls |-> calls]

fini_removes_first(st, cs, sketch, point, segments, made, succeede) ==
    IF ~succeede THEN FiniResult(st, cs, "none", <<>>)
    ELSE LET referenced == is_entity_referenced(st, cs, point)
             replaced1 == replace_point(st, get(st, segments[1]), point,
                                        get(st, made[2]))
             replaced2 == replace_point(replaced1, get(replaced1, segments[2]),
                                        point, get(replaced1, made[3]))
             tangent1 == add_tangent(cs, get(replaced2, made[4]),
                                     get(replaced2, segments[1]), sketch)
             tangent2 == add_tangent(tangent1, get(replaced2, made[4]),
                                     get(replaced2, segments[2]), sketch)
             removed == remove(replaced2, point.slvs_index)
         IN  IF referenced
             THEN FiniResult(replaced2, tangent2, "none",
                             <<"replace_point", "replace_point",
                               "add_tangent", "add_tangent", "solve_system">>)
             ELSE FiniResult(removed.sse, tangent2, removed.raised,
                             <<"remove", "replace_point", "replace_point",
                               "add_tangent", "add_tangent", "solve_system">>)

\* View3D_OT_slvs_bevel.fini after main has left the handles segments
\* (self.connected) and made (self.ct, self.points, self.arc) and has
\* returned succeede.
fini(st, cs, sketch, point, segments, made, succeede) ==
    IF ~succeede THEN FiniResult(st, cs, "none", <<>>)
    ELSE LET replaced1 == replace_point(st, get(st, segments[1]), point,
                                        get(st, made[2]))
             replaced2 == replace_point(replaced1, get(replaced1, segments[2]),
                                        point, get(replaced1, made[3]))
             tangent1 == add_tangent(cs, get(replaced2, made[4]),
                                     get(replaced2, segments[1]), sketch)
             tangent2 == add_tangent(tangent1, get(replaced2, made[4]),
                                     get(replaced2, segments[2]), sketch)
             removed == remove(replaced2, point.slvs_index)
         IN  IF is_entity_referenced(replaced2, tangent2, point)
             THEN FiniResult(replaced2, tangent2, "none",
                             <<"replace_point", "replace_point",
                               "add_tangent", "add_tangent", "solve_system">>)
             ELSE FiniResult(removed.sse, tangent2, removed.raised,
                             <<"replace_point", "replace_point",
                               "add_tangent", "add_tangent", "remove",
                               "solve_system">>)

(***************************************************************************)
(* _get_intersections.  An element is a pair (type, geometry); the         *)
(* geometry is told apart by the side of the segment it is offset to.      *)
(***************************************************************************)
\* ElementTypes.
ElementTypes == [Line |-> "LINE", Sphere |-> "Sphere"]

\* _get_intersection_func.
_get_intersection_func(type_a, type_b) ==
    IF type_a = ElementTypes.Line /\ type_b = ElementTypes.Line
    THEN "intersect_line_line_2d"
    ELSE IF type_a = ElementTypes.Sphere /\ type_b = ElementTypes.Sphere
    THEN "intersect_sphere_sphere_2d"
    ELSE "intersect_line_sphere_2d"

\* _order_intersection_args: "if arg1[0] == Sphere and arg1[0] == Line".
_order_intersection_args(arg1, arg2) ==
    IF arg1[1] = ElementTypes.Sphere /\ arg1[1] = ElementTypes.Line
    THEN <<arg2, arg1>>
    ELSE <<arg1, arg2>>

\* The call "func(*a[1], *b[1])" for the elements at positions i and j of
\* the list: the routine and the geometries in the order passed.
IntersectionCall(element_list, i, j) ==
    LET ordered == _order_intersection_args(element_list[i], element_list[j])
    IN  [func |-> _get_intersection_func(ordered[1][1], ordered[2][1]),
         first |-> ordered[1], second |-> ordered[2]]

\* The calls of the inner loop for elem_a at position i, from elem_b at
\* position j on.
RECURSIVE CallsWith(_, _, _)
CallsWith(element_list, i, j) ==
    IF j > Len(element_list) THEN <<>>
    ELSE <<IntersectionCall(element_list, i, j)>>
             \o CallsWith(element_list, i, j + 1)

\* The calls of the outer loop from position i on.
RECURSIVE CallsFrom(_, _)
CallsFrom(element_list, i) ==
    IF i >= Len(element_list) THEN <<>>
    ELSE CallsWith(element_list, i, i + 1) \o CallsFrom(element_list, i + 1)

\* _get_intersections(*element_list): the calls of intersection routines
\* it makes, in their order.
_get_intersections(element_list) == CallsFrom(element_list, 1)

(***************************************************************************)
(* SlvsLine2D.intersect.  A location is a pair of integers: coordinates    *)
(* in units of 10^-(precision + 1), so that rounding to precision digits   *)
(* is rounding to a multiple of ten.                                       *)
(***************************************************************************)
\* "precision = 5" in overlaps_endpoint.
precision == 5

\* round(f, ndigits) of a coordinate: to the nearest multiple of ten, a
\* tie to the even one.
round(f, ndigits) ==
    LET q == f \div 10
        r == f % 10
    IN  IF r < 5 \/ (r = 5 /\ q % 2 = 0) THEN 10 * q ELSE 10 * (q + 1)

\* round_v(vec, ndigits): every coordinate rounded.
round_v(vec, ndigits) == <<round(vec[1], ndigits), round(vec[2], ndigits)>>

\* A line as intersect reads it: p1.co and p2.co.
Segment(p1_co, p2_co) == [p1_co |-> p1_co, p2_co |-> p2_co]

overlaps_endpoint_p1_only(line, co) ==
    round_v(co, precision) = round_v(line.p1_co, precision)

\* SlvsLine2D.overlaps_endpoint.
overlaps_endpoint(line, co) ==
    \E v \in {line.p1_co, line.p2_co} :
        round_v(co, precision) = round_v(v, precision)

\* parse_retval in SlvsLine2D.intersect: value is what
\* intersect_line_line_2d returned, None or a location.
parse_retval(self, other, value) ==
    IF value = None THEN <<>>
    ELSE IF overlaps_endpoint(self, value) \/ overlaps_endpoint(other, value)
    THEN <<>>
    ELSE <<value>>

\* SlvsLine2D.intersect(other) for a line other, intersect_line_line_2d
\* returning value.
intersect(self, other, value) == parse_retval(self, other, value)

(***************************************************************************)
(* The state machine.  sse is the scene's entity store, adds the number of *)
(* add_<kind> calls since scene initialisation, last the record of the     *)
(* last operation: its name, its integer arguments, the exception it       *)
(* raised ("none": it returned), the uid of the entity it returned (NoUid: *)
(* None) and its integer results (for remove: the handle the moved entity  *)
(* had before, -1 when no entity was moved).  global_data is the module of  *)
(* that name, bpy what Blender holds of the add-on, ssc the scene's        *)
(* constraints (context.scene.sketcher.constraints).  data is the file     *)
(* do_versioning is run on: bpy.data.scenes, each scene with the entities  *)
(* and the angle constraints of its own, and which of them is              *)
(* bpy.context.scene.                                                      *)
(***************************************************************************)
Done(op, args, raised, ret, out) ==
    [op |-> op, args |-> args, raised |-> raised, ret |-> ret, out |-> out]

\* The module global_data as imported: the capability flag, the hovered
\* handle, the list of selected handles and the batches by handle.  The
\* fields selected_uid and hover_uid are history, which no operation of
\* the code reads: the uid of the entity each selected handle was added
\* for, and of the entity the hover handle was set for.
GlobalData ==
    [registered |-> FALSE, hover |-> -1, selected |-> <<>>, batches |-> {},
     selected_uid |-> <<>>, hover_uid |-> NoUid]

\* What Blender holds of the add-on before it is enabled: the presets are
\* not copied, the icons not loaded, the base classes not registered, and
\* of the classes of the full registration none.
Unregistered ==
    [imported |-> FALSE, presets |-> FALSE, icons |-> FALSE, base |-> FALSE,
     full |-> "none"]

\* The result of register or unregister: what Blender holds, global_data,
\* the exception raised, and whether unregister_full was called.
Registration(b, gd, raised, called_unregister_full) ==
    [bpy |-> b, global_data |-> gd, raised |-> raised,
     called_unregister_full |-> called_unregister_full]

\* What register() has done when it reaches the try statement:
\* ensure_addon_presets(), register_base(), icon_manager.load().
BaseRegistered(b) ==
    [b EXCEPT !.presets = TRUE, !.base = TRUE, !.icons = TRUE]

register_flags_always(b, gd, found, full_outcome) ==
    IF ~found
    THEN Registration(BaseRegistered(b), [gd EXCEPT !.registered = TRUE],
                      "none", FALSE)
    ELSE IF full_outcome = "none"
    THEN Registration([BaseRegistered(b) EXCEPT !.full = "complete"],
                      [gd EXCEPT !.registered = TRUE], "none", FALSE)
    ELSE IF full_outcome = "ModuleNotFoundError"
    THEN Registration([BaseRegistered(b) EXCEPT !.full = "partial"],
                      [gd EXCEPT !.registered = TRUE], "none", FALSE)
    ELSE Registration([BaseRegistered(b) EXCEPT !.full = "partial"],
                      gd, full_outcome, FALSE)

\* register().  found: check_module("py_slvs") finds the module (it
\* raises ModuleNotFoundError otherwise); full_outcome: the exception
\* register_full() raises part way ("none": it completes).  An exception
\* other than ModuleNotFoundError leaves register().
register(b, gd, found, full_outcome) ==
    IF ~found
    THEN Registration(BaseRegistered(b), [gd EXCEPT !.registered = FALSE],
                      "none", FALSE)
    ELSE IF full_outcome = "none"
    THEN Registration([BaseRegistered(b) EXCEPT !.full = "complete"],
                      [gd EXCEPT !.registered = TRUE], "none", FALSE)
    ELSE IF full_outcome = "ModuleNotFoundError"
    THEN Registration([BaseRegistered(b) EXCEPT !.full = "partial"],
                      [gd EXCEPT !.registered = FALSE], "none", FALSE)
    ELSE Registration([BaseRegistered(b) EXCEPT !.full = "partial"],
                      gd, full_outcome, FALSE)

\* unregister(): icon_manager.unload(), unregister_full() if the flag is
\* set, unregister_base(), cleanse_modules(__package__) (the package's
\* modules leave sys.modules).
unregister(b, gd) ==
    Registration([b EXCEPT !.icons = FALSE,
                           !.full = IF gd.registered THEN "none" ELSE @,
                           !.base = FALSE,
                           !.imported = FALSE],
                 gd, "none", gd.registered)

\* Scene initialisation: ensure_origin_elements on the empty store.
Init ==
    /\ sse = ensure_origin_elements(EmptyStore)
    /\ adds = 0
    /\ last = Done("init", <<>>, "none", NoUid, <<>>)
    /\ global_data = GlobalData
    /\ bpy = Unregistered
    /\ ssc = <<>>
    /\ data = NoScenes

CanAdd == adds < MaxAdds

Added(st, t) ==
    /\ sse' = st
    /\ adds' = adds + 1
    /\ last' = Done("add", <<>>, "none", LastOf(st, t).uid,
                     <<LastOf(st, t).slvs_index>>)
    /\ UNCHANGED <<global_data, bpy, ssc, data>>

\* The entities an add_<kind> call is given: the two most recent items of
\* collection t.
Recent(st, t) ==
    {st.slabs[t][n] : n \in {Len(st.slabs[t]) - 1, Len(st.slabs[t])}
                          \cap (1 .. Len(st.slabs[t]))}

\* The coordinate arguments add_point_3d is called with: a scalar, and the
\* tuples of every length up to MaxCoLen.
CoArgs == {Scalar} \cup {Co(n) : n \in 0 .. MaxCoLen}

\* add_point_3d with a location.
AddPoint3D == CanAdd /\ Added(add_point_3d(sse, Co(3)).sse, 0)

\* add_point_3d with any coordinate argument.
AddPoint3DAnyCo ==
    /\ CanAdd
    /\ \E co \in CoArgs :
           LET r == add_point_3d(sse, co)
           IN  /\ sse' = r.sse
               /\ adds' = IF r.raised = "none" THEN adds + 1 ELSE adds
               /\ last' = IF r.raised = "none"
                          THEN Done("add_point_3d", <<co.len>>, "none",
                                    LastOf(r.sse, 0).uid,
                                    <<LastOf(r.sse, 0).slvs_index>>)
                          ELSE Done("add_point_3d", <<co.len>>, r.raised,
                                    NoUid, <<>>)
               /\ UNCHANGED <<global_data, bpy, ssc, data>>

AddLine3D ==
    /\ CanAdd
    /\ \E p1 \in Recent(sse, 0), p2 \in Recent(sse, 0) :
           Added(add_line_3d(sse, p1, p2), 1)

AddNormal3D == CanAdd /\ Added(add_normal_3d(sse), 2)

AddWorkplane ==
    /\ CanAdd
    /\ \E p1 \in Recent(sse, 0), nm \in Recent(sse, 2) :
           Added(add_workplane(sse, p1, nm), 3)

AddSketch ==
    /\ CanAdd
    /\ \E wp \in Recent(sse, 3) : Added(add_sketch(sse, wp), 4)

AddPoint2D ==
    /\ CanAdd
    /\ \E sketch \in Recent(sse, 4) : Added(add_point_2d(sse, sketch), 5)

AddLine2D ==
    /\ CanAdd
    /\ \E p1 \in Recent(sse, 5), p2 \in Recent(sse, 5), sketch \in Recent(sse, 4) :
           Added(add_line_2d(sse, p1, p2, sketch), 6)

AddNormal2D ==
    /\ CanAdd
    /\ \E sketch \in Recent(sse, 4) : Added(add_normal_2d(sse, sketch), 7)

AddArc ==
    /\ CanAdd
    /\ \E nm \in Recent(sse, 7), ct \in Recent(sse, 5), p1 \in Recent(sse, 5),
          p2 \in Recent(sse, 5), sketch \in Recent(sse, 4) :
           Added(add_arc(sse, nm, ct, p1, p2, sketch), 8)

AddCircle ==
    /\ CanAdd
    /\ \E nm \in Recent(sse, 7), ct \in Recent(sse, 5), sketch \in Recent(sse, 4) :
           Added(add_circle(sse, nm, ct, sketch), 9)

\* The handles of the live entities.
LiveHandles(st) == {e.slvs_index : e \in Live(st)}

\* Handles that resolve to nothing: no reference, another negative handle,
\* the slot past the end of the 3D points and the slot after it, the first
\* slot of the last collection while that is empty, a type index past the
\* last collection, the last type index of four bits, a handle wider than
\* 24 bits.
MissingHandles(st) ==
    {-1, -2,
     assemble_index(0, Len(st.slabs[0])),
     assemble_index(0, Len(st.slabs[0]) + 1),
     assemble_index(Len(entities), 0),
     assemble_index(Pow2(TypeBits) - 1, 1),
     Pow2(TypeShift + TypeBits)}
    \cup {assemble_index(t, 0) : t \in {x \in {Len(entities) - 1} :
                                          Len(st.slabs[x]) = 0}}

UidOf(r) == IF r = None \/ IsRaise(r) THEN NoUid ELSE r.uid

RaisedBy(r) == IF IsRaise(r) THEN r.raised ELSE "none"

Removed(h) ==
    LET r == remove(sse, h)
    IN  /\ sse' = r.sse
        /\ last' = Done("remove", <<h>>, r.raised, NoUid, <<r.moved_from>>)
        /\ UNCHANGED <<adds, global_data, bpy, ssc, data>>

\* entities.remove(h) with the handle of an entity that is no origin
\* element.
Remove == \E h \in {e.slvs_index : e \in {x \in Live(sse) : ~x.origin}} : Removed(h)

\* entities.remove(h) with the handle of any live entity, origin elements
\* included.
RemoveLive == \E h \in LiveHandles(sse) : Removed(h)

\* entities.remove(h) with a handle that resolves to nothing.
RemoveMissing == \E h \in MissingHandles(sse) : Removed(h)

\* entities.get(h).
Get ==
    \E h \in LiveHandles(sse) \cup MissingHandles(sse) :
        /\ last' = Done("get", <<h>>, RaisedBy(get(sse, h)), UidOf(get(sse, h)),
                         <<>>)
        /\ UNCHANGED <<sse, adds, global_data, bpy, ssc, data>>

\* A sketch is converted: its target object is created and refers back to
\* the sketch by sketch_index.
SetTargetObject ==
    \E n \in 1 .. Len(sse.slabs[4]) :
        /\ sse.slabs[4][n].target_object = None
        /\ sse' = [sse EXCEPT !.slabs[4][n].target_object =
                                [sketch_index |-> sse.slabs[4][n].slvs_index]]
        /\ last' = Done("convert", <<sse.slabs[4][n].slvs_index>>, "none",
                         NoUid, <<>>)
        /\ UNCHANGED <<adds, global_data, bpy, ssc, data>>

\* The store under creation of every kind, removal of the entities that are
\* no origin elements, and conversion.
Next ==
    \/ AddPoint3D
    \/ AddLine3D
    \/ AddNormal3D
    \/ AddWorkplane
    \/ AddSketch
    \/ AddPoint2D
    \/ AddLine2D
    \/ AddNormal2D
    \/ AddArc
    \/ AddCircle
    \/ Remove
    \/ SetTargetObject

Spec == Init /\ [][Next]_vars

\* Lookup and removal by any handle (live, origin element, or resolving to
\* nothing) in the collections that hold the origin elements, two
\* creations short of MaxAdds.
LookupAdds == MaxAdds - 2

NextLookup ==
    \/ (adds < LookupAdds /\ AddPoint3DAnyCo)
    \/ (adds < LookupAdds /\ AddNormal3D)
    \/ (adds < LookupAdds /\ AddWorkplane)
    \/ RemoveLive
    \/ RemoveMissing
    \/ Get

SpecLookup == Init /\ [][NextLookup]_vars

\* One call of update_pointers(index_old, index_new) on a scene of
\* sketches, 2D points, 2D normals and arcs (with the origin elements,
\* every reference field there is), which ends the run.
UpdatePointers ==
    \E index_old \in LiveHandles(sse) \cup {-1},
       index_new \in LiveHandles(sse) \cup {-1} :
        /\ sse' = update_pointers(sse, index_old, index_new)
        /\ last' = Done("update_pointers", <<index_old, index_new>>, "none",
                        NoUid, <<>>)
        /\ UNCHANGED <<adds, global_data, bpy, ssc, data>>

NextRewrite ==
    \/ (last.op # "update_pointers" /\ AddSketch)
    \/ (last.op # "update_pointers" /\ AddPoint2D)
    \/ (last.op # "update_pointers" /\ AddNormal2D)
    \/ (last.op # "update_pointers" /\ AddArc)
    \/ (last.op # "update_pointers" /\ SetTargetObject)
    \/ (last.op # "update_pointers" /\ UpdatePointers)

SpecRewrite == Init /\ [][NextRewrite]_vars

\* The handle codec on every type index of four bits and on the slot
\* indices at both ends of the 20-bit range.
SlotSamples ==
    (0 .. MaxSlotSample)
    \cup ((Pow2(TypeShift) - 1 - MaxSlotSample) .. (Pow2(TypeShift) - 1))

\* _set_index: the handle of type index k and local index s.
Assemble ==
    \E k \in 0 .. (Pow2(TypeBits) - 1), s \in SlotSamples :
        /\ last' = Done("assemble_index", <<k, s>>, "none", NoUid,
                        <<assemble_index(k, s)>>)
        /\ UNCHANGED <<sse, adds, global_data, bpy, ssc, data>>

\* _breakdown_index of the handle just assembled.
Breakdown ==
    /\ last.op = "assemble_index"
    /\ last' = Done("breakdown_index", last.out, "none", NoUid,
                    breakdown_index(last.out[1]))
    /\ UNCHANGED <<sse, adds, global_data, bpy, ssc, data>>

NextCodec == Assemble \/ Breakdown

SpecCodec == Init /\ [][NextCodec]_vars

\* A scene right after construction: the store is empty, and
\* ensure_origin_elements has not been called yet.
InitConstructed ==
    /\ sse = EmptyStore
    /\ adds = 0
    /\ last = Done("construct", <<>>, "none", NoUid, <<>>)
    /\ global_data = GlobalData
    /\ bpy = Unregistered
    /\ ssc = <<>>
    /\ data = NoScenes

\* entities.ensure_origin_elements(context).
EnsureOriginElements ==
    /\ sse' = ensure_origin_elements(sse)
    /\ last' = Done("ensure_origin_elements", <<>>, "none", NoUid, <<>>)
    /\ UNCHANGED <<adds, global_data, bpy, ssc, data>>

\* Scene initialisation is the first call of ensure_origin_elements; the
\* 3D kinds are added, and any live entity removed, after it.
Initialised == last.op # "construct"

OriginAdds == MaxAdds - 1

NextOrigin ==
    \/ EnsureOriginElements
    \/ (Initialised /\ adds < OriginAdds /\ AddPoint3D)
    \/ (Initialised /\ adds < OriginAdds /\ AddLine3D)
    \/ (Initialised /\ adds < OriginAdds /\ AddNormal3D)
    \/ (Initialised /\ adds < OriginAdds /\ AddWorkplane)
    \/ (Initialised /\ RemoveLive)

SpecOrigin == InitConstructed /\ [][NextOrigin]_vars

\* The entities the dirty flag is exercised on: the sketches, the 2D
\* points and the 2D lines, by collection and position.
DirtyKinds == {4, 5, 6}

DirtyTargets(st) ==
    {<<t, n>> : t \in DirtyKinds, n \in 1 .. MaxAdds}
    \cap UNION {{<<t, n>> : n \in 1 .. Len(st.slabs[t])} : t \in DirtyKinds}

\* The outcome of a method of the entity at x: the scene after it, and the
\* record of the call.
Called(op, x, more, r, out) ==
    /\ sse' = r.sse
    /\ global_data' = r.global_data
    /\ last' = Done(op, <<sse.slabs[x[1]][x[2]].slvs_index>> \o more,
                    r.raised, sse.slabs[x[1]][x[2]].uid, out)
    /\ UNCHANGED <<adds, bpy, ssc, data>>

\* e.tag_update().
TagUpdate ==
    \E x \in DirtyTargets(sse) :
        Called("tag_update", x, <<>>,
               tag_update(sse, global_data, x[1], x[2]), <<>>)

\* e.update(), in background mode (1) or not (0).
Update ==
    \E x \in DirtyTargets(sse), background \in BOOLEAN :
        Called("update", x, <<IF background THEN 1 ELSE 0>>,
               update(sse, global_data, x[1], x[2], background), <<>>)

\* e.is_dirty is read.
IsDirty ==
    \E x \in DirtyTargets(sse) :
        LET r == is_dirty(sse, sse.slabs[x[1]][x[2]])
        IN  Called("is_dirty", x, <<>>, Effect(sse, global_data, r.raised),
                   IF r.raised = "none" THEN <<r.value>> ELSE <<>>)

\* Sketches, 2D points and 2D lines are added, tagged, rebuilt, asked for
\* their flag, and removed.
DirtyAdds == MaxAdds - 1

NextDirty ==
    \/ (adds < DirtyAdds /\ AddSketch)
    \/ (adds < DirtyAdds /\ AddPoint2D)
    \/ (adds < DirtyAdds /\ AddLine2D)
    \/ TagUpdate
    \/ Update
    \/ IsDirty
    \/ Remove

SpecDirty == Init /\ [][NextDirty]_vars

\* The entities the selected handles were added for, after
\* e.selected = value: the entry of a handle is dropped and appended with it.
SelectedFor(gd, e, value) ==
    LET after == set_selected(gd.selected, e.slvs_index, value)
    IN  IF Len(after) > Len(gd.selected) THEN Append(gd.selected_uid, e.uid)
        ELSE IF Len(after) < Len(gd.selected)
             THEN LET i == CHOOSE k \in 1 .. Len(after) + 1 :
                               \A j \in 1 .. Len(after) :
                                   after[j] = gd.selected[IF j < k THEN j ELSE j + 1]
                  IN  SubSeq(gd.selected_uid, 1, i - 1)
                      \o SubSeq(gd.selected_uid, i + 1, Len(gd.selected_uid))
             ELSE gd.selected_uid

\* e.selected = value, on a live entity that is no origin element.
Select ==
    \E e \in {x \in Live(sse) : ~x.origin}, value \in BOOLEAN :
        /\ global_data' = [global_data EXCEPT
                             !.selected = set_selected(@, e.slvs_index, value),
                             !.selected_uid = SelectedFor(global_data, e, value)]
        /\ last' = Done("select", <<e.slvs_index, IF value THEN 1 ELSE 0>>,
                        "none", e.uid, <<>>)
        /\ UNCHANGED <<sse, adds, bpy, ssc, data>>

\* e.hover = value, on a live entity that is no origin element.
Hover ==
    \E e \in {x \in Live(sse) : ~x.origin}, value \in BOOLEAN :
        /\ global_data' = [global_data EXCEPT
                             !.hover = set_hover(e.slvs_index, value),
                             !.hover_uid = IF value THEN e.uid ELSE NoUid]
        /\ last' = Done("hover", <<e.slvs_index, IF value THEN 1 ELSE 0>>,
                        "none", e.uid, <<>>)
        /\ UNCHANGED <<sse, adds, bpy, ssc, data>>

\* The handles of a sequence of entities.
HandlesOf(items) == [n \in 1 .. Len(items) |-> items[n].slvs_index]

\* The contexts a sequence is read in.
Contexts(st) ==
    {Context(show_origin, all_entities_selectable, active_sketch) :
        show_origin \in BOOLEAN, all_entities_selectable \in BOOLEAN,
        active_sketch \in {None} \cup Items(st, 4)}

\* The outcome of reading a sequence of entities: the handles listed.
Listed(op, r) ==
    /\ last' = Done(op, <<>>, r.raised, NoUid,
                    IF r.raised = "none" THEN HandlesOf(r.value) ELSE <<>>)
    /\ UNCHANGED <<sse, adds, global_data, bpy, ssc, data>>

\* list(entities.all).
All == Listed("all", Return(all(sse)))

\* entities.selected.
Selected ==
    \E context \in Contexts(sse) :
        Listed("selected", selected(sse, global_data, context))

\* entities.selected_active.
SelectedActive ==
    \E context \in Contexts(sse) :
        Listed("selected_active", selected_active(sse, global_data, context))

\* 3D points, sketches and 2D points are added, selected, deselected,
\* hovered and removed, and the sequences read.
SelectAdds == MaxAdds - 1

NextSelect ==
    \/ (adds < SelectAdds /\ AddPoint3D)
    \/ (adds < SelectAdds /\ AddSketch)
    \/ (adds < SelectAdds /\ AddPoint2D)
    \/ Remove
    \/ Select
    \/ Hover
    \/ All
    \/ Selected
    \/ SelectedActive

SpecSelect == Init /\ [][NextSelect]_vars

\* An earlier order of SlvsEntities.entities, as the type index each class
\* had in it (position t + 1: the class that has type index t now): the
\* same order; SlvsLine3D not there yet (15; every later class one lower);
\* a class since dropped before all (every class one higher); SlvsSketch
\* and SlvsPoint2D the other way round.
Orderings ==
    {<<0, 1, 2, 3, 4, 5, 6, 7, 8, 9>>,
     <<0, 15, 1, 2, 3, 4, 5, 6, 7, 8>>,
     <<1, 2, 3, 4, 5, 6, 7, 8, 9, 10>>,
     <<0, 1, 2, 3, 5, 4, 6, 7, 8, 9>>}

\* A handle as it was under the order old_of.
OldHandle(old_of, h) ==
    IF h = -1 THEN -1
    ELSE assemble_index(old_of[breakdown_index(h)[1] + 1],
                        breakdown_index(h)[2])

\* The store as a file saved under the order old_of holds it: every
\* handle, reference and pointer has the type index of that order.
Saved(st, old_of) ==
    [st EXCEPT
       !.slabs = [t \in TypeIndices |->
                    [n \in 1 .. Len(st.slabs[t]) |->
                       [st.slabs[t][n] EXCEPT
                          !.slvs_index = OldHandle(old_of, @),
                          !.refs = [f \in DOMAIN @ |-> OldHandle(old_of, @[f])],
                          !.target_object =
                             IF @ = None THEN None
                             ELSE [sketch_index |->
                                     OldHandle(old_of, @.sketch_index)]]]],
       !.ptrs = [name \in OriginPointers |-> OldHandle(old_of, @[name])]]

\* A file saved under an earlier order of the classes is loaded.
LoadSaved ==
    /\ last.op \notin {"load", "recalc_pointers"}
    /\ \E old_of \in Orderings :
           /\ \A t \in TypeIndices :
                  old_of[t + 1] = Pow2(TypeBits) - 1 => Len(sse.slabs[t]) = 0
           /\ sse' = Saved(sse, old_of)
           /\ last' = Done("load", old_of, "none", NoUid, <<>>)
    /\ UNCHANGED <<adds, global_data, bpy, ssc, data>>

\* recalc_pointers(scene) on the loaded file.
RecalcPointers ==
    /\ last.op = "load"
    /\ sse' = recalc_pointers(sse)
    /\ last' = Done("recalc_pointers", last.args, "none", NoUid, <<>>)
    /\ UNCHANGED <<adds, global_data, bpy, ssc, data>>

\* A scene of sketches, 2D points and 2D lines, some sketches converted,
\* is saved, loaded under another order of the classes and recalculated.
RecalcAdds == MaxAdds - 1

Editing == last.op \notin {"load", "recalc_pointers"}

NextRecalc ==
    \/ (Editing /\ adds < RecalcAdds /\ AddSketch)
    \/ (Editing /\ adds < RecalcAdds /\ AddPoint2D)
    \/ (Editing /\ adds < RecalcAdds /\ AddLine2D)
    \/ (Editing /\ SetTargetObject)
    \/ LoadSaved
    \/ RecalcPointers

SpecRecalc == Init /\ [][NextRecalc]_vars

\* The outcomes of register_full().
FullOutcomes == <<"none", "ModuleNotFoundError", "RuntimeError">>

\* The add-on is enabled: Blender imports the package (anew, when its
\* modules have left sys.modules) and calls register().
Register ==
    /\ ~bpy.base
    /\ \E found \in BOOLEAN, o \in 1 .. Len(FullOutcomes) :
           LET r == register([bpy EXCEPT !.imported = TRUE],
                             IF bpy.imported THEN global_data ELSE GlobalData,
                             found, FullOutcomes[o])
           IN  /\ bpy' = r.bpy
               /\ global_data' = r.global_data
               /\ last' = Done("register", <<IF found THEN 1 ELSE 0, o>>,
                               r.raised, NoUid, <<>>)
    /\ UNCHANGED <<sse, adds, ssc, data>>

\* The add-on is disabled: Blender calls unregister().
Unregister ==
    /\ bpy.base
    /\ LET r == unregister(bpy, global_data)
       IN  /\ bpy' = r.bpy
           /\ global_data' = r.global_data
           /\ last' = Done("unregister", <<>>, r.raised, NoUid,
                           <<IF r.called_unregister_full THEN 1 ELSE 0>>)
    /\ UNCHANGED <<sse, adds, ssc, data>>

\* The add-on is enabled and disabled; while it is enabled, with or
\* without the solver, 3D entities are created, selected and removed.
RegisterAdds == MaxAdds - 2

NextRegister ==
    \/ Register
    \/ Unregister
    \/ (bpy.base /\ adds < RegisterAdds /\ AddPoint3D)
    \/ (bpy.base /\ adds < RegisterAdds /\ AddNormal3D)
    \/ (bpy.base /\ Select)
    \/ (bpy.base /\ Remove)

SpecRegister == Init /\ [][NextRegister]_vars

\* add_arc with the normal of the sketch's workplane, as the operators
\* create arcs.
AddSketchArc ==
    /\ CanAdd
    /\ \E ct \in Recent(sse, 5), p1 \in Recent(sse, 5), p2 \in Recent(sse, 5),
          sketch \in Recent(sse, 4) :
           /\ Deref(sse, sketch.refs["wp_i"]) # None
           /\ Added(add_arc(sse,
                            Deref(sse, Deref(sse, sketch.refs["wp_i"]).refs["nm_i"]),
                            ct, p1, p2, sketch), 8)

\* The candidate intersections of a run whose distances already ascend:
\* up to MaxCandidates candidates, each inside or outside either segment,
\* the n-th at distance n.
CandidateLists ==
    UNION {{[n \in 1 .. len |-> Candidate(in1[n], in2[n], n)] :
                in1 \in [1 .. len -> BOOLEAN], in2 \in [1 .. len -> BOOLEAN]} :
           len \in 0 .. MaxCandidates}

\* The candidate intersections of a run in any order of distance: each at
\* one of as many distances as there can be candidates.
RankedLists ==
    UNION {[1 .. len ->
               {Candidate(a, b, d) : a \in BOOLEAN, b \in BOOLEAN,
                                     d \in 1 .. MaxCandidates}] :
           len \in 0 .. MaxCandidates}

\* The entries of a sequence of at most n handles, -1 for those it lacks.
Padded(hs, n) == [i \in 1 .. n |-> IF i <= Len(hs) THEN hs[i] ELSE -1]

\* The outcomes main can meet of the geometry it consults for a point:
\* none where it returns or raises before it has the intersections; no
\* is_inside outcome for a segment that has no such method; a defined
\* projection on a line.
Consults(st, point) ==
    /\ Len(connected(st, point)) = 2
    /\ \A n \in 1 .. 2 : ~OffsetsRaise(st, connected(st, point)[n])

FoundBy(st, point, lists) ==
    IF ~Consults(st, point) THEN {<<>>}
    ELSE {found \in lists :
              \A n \in 1 .. Len(found) :
                  /\ ~HasIsInside(connected(st, point)[1]) => found[n].inside1
                  /\ ~HasIsInside(connected(st, point)[2]) => found[n].inside2}

ProjectedBy(st, point, k, projections) ==
    IF Consults(st, point) /\ HasIsInside(connected(st, point)[k])
    THEN projections
    ELSE {TRUE}

\* The bevel operator's main step on a 2D point, in the active sketch,
\* with the candidates of one of the given lists.  The call is recorded
\* with the point's handle, the sketch's handle, whether either projection
\* is defined, and the candidates; its results are the value returned, the
\* candidate chosen, the handles of the two connected segments and those
\* of the centre, the two tangent points and the arc.
BevelMainWith(lists, projections) ==
    \E point \in Items(sse, 5), sketch \in Items(sse, 4) :
      \E found \in FoundBy(sse, point, lists),
         defined1 \in ProjectedBy(sse, point, 1, projections),
         defined2 \in ProjectedBy(sse, point, 2, projections) :
        \E r \in {main(sse, sketch, point, found, defined1, defined2)} :
            /\ sse' = r.sse
            /\ last' = Done("main",
                            <<point.slvs_index, sketch.slvs_index,
                              IF defined1 THEN 1 ELSE 0,
                              IF defined2 THEN 1 ELSE 0>>
                            \o [n \in 1 .. Len(found) |->
                                   CandidateCode(found[n])],
                            r.raised, point.uid,
                            <<IF r.value THEN 1 ELSE 0, r.chosen>>
                            \o Padded(r.connected, 2) \o Padded(r.made, 4))
            /\ UNCHANGED <<adds, global_data, bpy, ssc, data>>

BevelMain == BevelMainWith(CandidateLists, BOOLEAN)

\* The scene after its initialisation and the creation of a sketch on the
\* first origin workplane.
InitSketch ==
    /\ sse = add_sketch(ensure_origin_elements(EmptyStore),
                        ensure_origin_elements(EmptyStore).slabs[3][1])
    /\ adds = 0
    /\ last = Done("init", <<>>, "none", NoUid, <<>>)
    /\ global_data = GlobalData
    /\ bpy = Unregistered
    /\ ssc = <<>>
    /\ data = NoScenes

\* entities.remove(h) with the handle of a 2D point.
RemovePoint2D == \E h \in {e.slvs_index : e \in Items(sse, 5)} : Removed(h)

\* The handles of a sequence that are set.
SetHandles(hs) == SelectSeq(hs, LAMBDA h : h # -1)

\* The bevel operator's fini, which the operator calls with the value main
\* returned.  The call is recorded with that value and the handles main
\* was called with; its results are the calls it made.
BevelFini ==
    /\ last.op = "main"
    /\ last.raised = "none"
    /\ \E r \in {fini(sse, ssc, get(sse, last.args[2]), get(sse, last.args[1]),
                      SetHandles(SubSeq(last.out, 3, 4)),
                      SetHandles(SubSeq(last.out, 5, 8)),
                      last.out[1] = 1)} :
           /\ sse' = r.sse
           /\ ssc' = r.ssc
           /\ last' = Done("fini", <<last.out[1], last.args[1], last.args[2]>>,
                           r.raised, last.ret, r.calls)
    /\ UNCHANGED <<adds, global_data, bpy, data>>

\* In the sketch 2D points, lines and arcs are drawn, points of it are
\* removed, and a point is bevelled, which ends the run.
Drawing == last.op \notin {"main", "fini"}

NextBevel ==
    \/ (Drawing /\ AddPoint2D)
    \/ (Drawing /\ AddLine2D)
    \/ (Drawing /\ AddSketchArc)
    \/ (Drawing /\ RemovePoint2D)
    \/ (Drawing /\ BevelMain)
    \/ BevelFini

SpecBevel == InitSketch /\ [][NextBevel]_vars

\* The main step with candidates in any order of distance, both
\* projections defined.
BevelMainRanked == BevelMainWith(RankedLists, {TRUE})

\* In the sketch 2D points, lines and arcs are drawn and a point is
\* bevelled.
CentreAdds == MaxAdds - 1

NextCentre ==
    \/ (Drawing /\ adds < CentreAdds /\ AddPoint2D)
    \/ (Drawing /\ adds < CentreAdds /\ AddLine2D)
    \/ (Drawing /\ adds < CentreAdds /\ AddSketchArc)
    \/ (Drawing /\ BevelMainRanked)

SpecCentre == InitSketch /\ [][NextCentre]_vars

\* The elements _get_intersections is given: a line or a sphere, offset to
\* either side (_get_offset_elements: offset, -offset).
Elements == {<<t, side>> : t \in {ElementTypes.Line, ElementTypes.Sphere},
                          side \in {1, -1}}

\* _get_intersections on a list of elements.  The call is recorded with
\* the list; its results are the calls made.
GetIntersections ==
    /\ last.op = "init"
    /\ \E n \in 0 .. MaxElements :
           \E element_list \in [1 .. n -> Elements] :
               last' = Done("_get_intersections", element_list, "none", NoUid,
                            _get_intersections(element_list))
    /\ UNCHANGED <<sse, adds, global_data, bpy, ssc, data>>

NextPairs == GetIntersections

SpecPairs == Init /\ [][NextPairs]_vars

\* The coordinates and locations intersect is called with.
Micros == MaxMicro - 2 .. MaxMicro

Locations == Micros \X Micros

\* line.intersect(other) of two 2D lines, intersect_line_line_2d finding
\* no intersection or the location value.  The call is recorded with the
\* coordinates of self.p1, self.p2, other.p1, other.p2 and of value (none
\* for None); its result is the coordinates returned.
Intersect ==
    /\ last.op = "init"
    /\ \E a \in Locations, b \in Locations, c \in Locations, d \in Locations,
          value \in {None} \cup Locations :
           last' = Done("intersect",
                        a \o b \o c \o d \o (IF value = None THEN <<>> ELSE value),
                        "none", NoUid,
                        IF intersect(Segment(a, b), Segment(c, d), value) = <<>>
                        THEN <<>>
                        ELSE intersect(Segment(a, b), Segment(c, d), value)[1])
    /\ UNCHANGED <<sse, adds, global_data, bpy, ssc, data>>

NextIntersect == Intersect

SpecIntersect == Init /\ [][NextIntersect]_vars

\* The versions scenes were saved with: two older than the add-on, its
\* own, and a newer one.
Versions == {<<0, 22, 0>>, <<0, 25, 0>>, get_addon_version, <<0, 28, 0>>}

\* The entities of a saved scene: of a scene the add-on was never used
\* in, of an initialised scene, and of one a normal was added to.
SavedStores ==
    {EmptyStore,
     ensure_origin_elements(EmptyStore),
     add_normal_3d(ensure_origin_elements(EmptyStore))}

\* The angle constraints of a saved scene.
SavedAngles ==
    UNION {[1 .. n -> [setting : BOOLEAN, is_reference : BOOLEAN]] :
              n \in 0 .. MaxAngles}

\* scene.sketcher of a saved scene; the version of a scene saved before
\* versions were written is not set.
SavedScenes ==
    {Scene(FALSE, <<0, 0, 0>>, st, angle) :
        st \in SavedStores, angle \in SavedAngles}
    \cup {Scene(TRUE, version, st, angle) :
        version \in Versions, st \in SavedStores, angle \in SavedAngles}

\* A file has been loaded: its scenes, one of them the context's.
InitLoaded ==
    /\ sse = EmptyStore
    /\ adds = 0
    /\ last = Done("load", <<>>, "none", NoUid, <<>>)
    /\ global_data = GlobalData
    /\ bpy = Unregistered
    /\ ssc = <<>>
    /\ \E n \in 1 .. MaxScenes :
           \E ss \in [1 .. n -> SavedScenes], c \in 1 .. n :
               data = [scenes |-> ss, context_scene |-> c]

\* do_versioning(), once on the loaded file; own: the pointer getters of
\* a store look the handle up in that store (1) or in context.scene's (0).
DoVersioning ==
    /\ last.op = "load"
    /\ \E own \in BOOLEAN :
           /\ data' = [data EXCEPT
                         !.scenes = do_versioning(@, data.context_scene, own)]
           /\ last' = Done("do_versioning", <<IF own THEN 1 ELSE 0>>, "none",
                           NoUid, <<>>)
    /\ UNCHANGED <<sse, adds, global_data, bpy, ssc>>

NextVersioning == DoVersioning

SpecVersioning == InitLoaded /\ [][NextVersioning]_vars

(***************************************************************************)
(* Properties.                                                             *)
(***************************************************************************)
\* The entity with uid u in store st (None: it is not live).
ByUid(st, u) ==
    IF \E e \in Live(st) : e.uid = u
    THEN CHOOSE e \in Live(st) : e.uid = u
    ELSE None

\* The handles an entity holds: its reference fields and, when it has a
\* target object, that object's sketch_index.
HeldIn(e) ==
    {e.refs[f] : f \in DOMAIN e.refs}
    \cup (IF e.target_object = None THEN {} ELSE {e.target_object.sketch_index})

\* The step is a remove that returned and moved an entity.
RemoveMoved == last'.op = "remove" /\ last'.raised = "none" /\ last'.out[1] # -1

\* C1: after remove(h) has moved an entity into the freed slot, no reference
\* field of any entity and no target object's sketch_index holds the handle
\* the moved entity had before, and every one that held it holds h.
C1_NoStaleHandleOfMoved ==
    [][RemoveMoved =>
         \A e2 \in Live(sse') :
             /\ last'.out[1] \notin HeldIn(e2)
             /\ LET e1 == ByUid(sse, e2.uid)
                IN  /\ \A f \in DOMAIN e2.refs :
                           e1.refs[f] = last'.out[1] => e2.refs[f] = last'.args[1]
                    /\ (e1.target_object # None
                        /\ e1.target_object.sketch_index = last'.out[1])
                       => (e2.target_object # None
                           /\ e2.target_object.sketch_index = last'.args[1])]_vars

\* C1 witness: a remove has moved a sketch into the freed slot h, and a 2D
\* entity created in that sketch now refers to it by h.
C1_Witness ==
    /\ last.op = "remove"
    /\ last.out[1] # -1
    /\ \E e \in Live(sse) :
           /\ is_2d(e)
           /\ e.refs["sketch_i"] = last.args[1]
           /\ get(sse, last.args[1]).uid = e.owner

\* The step is a remove, which returned, of an entity that is no origin
\* element.
RemoveOfPlain ==
    /\ last'.op = "remove"
    /\ last'.raised = "none"
    /\ get(sse, last'.args[1]) # None
    /\ ~get(sse, last'.args[1]).origin

\* The collection a handle names, and its slot.
SlabOf(st, h) == st.slabs[breakdown_index(h)[1]]

SlotOf(h) == breakdown_index(h)[2]

\* C2 as claimed: after remove(h) of an entity that is no origin element,
\* get(h) is the entity that was last in the collection, or nothing if the
\* collection is now empty.
C2_GetIsPreviousLast ==
    [][RemoveOfPlain =>
         LET h == last'.args[1]
             before == SlabOf(sse, h)
         IN  IF Len(SlabOf(sse', h)) = 0
             THEN get(sse', h) = None
             ELSE /\ get(sse', h) # None
                  /\ get(sse', h).uid = before[Len(before)].uid]_vars

\* C2 amended: after remove(h) of an entity that is no origin element,
\* get(h) is nothing if h was the last slot of its collection, and
\* otherwise the entity that was last in the collection, now with handle h.
C2_GetIsPreviousLastUnlessLast ==
    [][RemoveOfPlain =>
         LET h == last'.args[1]
             before == SlabOf(sse, h)
         IN  IF SlotOf(h) = Len(before) - 1
             THEN get(sse', h) = None
             ELSE /\ get(sse', h) # None
                  /\ get(sse', h).uid = before[Len(before)].uid
                  /\ get(sse', h).slvs_index = h
                  /\ Len(SlabOf(sse', h)) = Len(before) - 1]_vars

\* C2 witness: a remove has moved an entity and get(h) finds an entity at h.
C2_Witness ==
    /\ last.op = "remove"
    /\ last.raised = "none"
    /\ last.out[1] # -1
    /\ SlotOf(last.out[1]) > SlotOf(last.args[1]) + 1
    /\ get(sse, last.args[1]) # None

\* C3: the entity at position i of collection t has the handle of type
\* index t and slot i, its class is that of the collection, and no two live
\* entities have the same handle.
C3_HandleIsKindAndSlot ==
    /\ \A t \in TypeIndices : \A n \in 1 .. Len(sse.slabs[t]) :
           /\ sse.slabs[t][n].slvs_index = t * 1048576 + (n - 1)
           /\ breakdown_index(sse.slabs[t][n].slvs_index) = <<t, n - 1>>
           /\ sse.slabs[t][n].type = entities[t + 1]
    /\ \A e1 \in Live(sse), e2 \in Live(sse) :
           e1.slvs_index = e2.slvs_index => e1.uid = e2.uid

\* C3 witness: entities have been added and a remove has moved one.
C3_Witness ==
    /\ last.op = "remove"
    /\ last.out[1] # -1
    /\ adds = MaxAdds

\* C4: remove(h) on the handle of an origin element returns and leaves the
\* store as it was: every collection's length, every handle and every
\* reference field.
C4_RemoveOriginIsNoOp ==
    [][(/\ last'.op = "remove"
        /\ get(sse, last'.args[1]) # None
        /\ get(sse, last'.args[1]).origin)
       => (/\ last'.raised = "none"
           /\ \A t \in TypeIndices :
                  /\ Len(sse'.slabs[t]) = Len(sse.slabs[t])
                  /\ \A n \in 1 .. Len(sse.slabs[t]) :
                         /\ sse'.slabs[t][n].uid = sse.slabs[t][n].uid
                         /\ sse'.slabs[t][n].slvs_index = sse.slabs[t][n].slvs_index
                         /\ sse'.slabs[t][n].refs = sse.slabs[t][n].refs
           /\ sse' = sse)]_vars

\* C4 witness: remove was called on the handle of an origin workplane while
\* entities that are no origin elements were live.
C4_Witness ==
    /\ last.op = "remove"
    /\ get(sse, last.args[1]) # None
    /\ get(sse, last.args[1]).origin
    /\ get(sse, last.args[1]).type = "SlvsWorkplane"
    /\ \E e \in Live(sse) : ~e.origin

\* The store after scene initialisation.
InitialStore == ensure_origin_elements(EmptyStore)

\* C5: each of the store's seven origin pointers resolves to a live entity
\* flagged origin and fixed, the very entity scene initialisation made it
\* point to.
C5_OriginPointersResolve ==
    \A n \in OriginPointers :
        /\ Deref(sse, sse.ptrs[n]) # None
        /\ Deref(sse, sse.ptrs[n]).origin
        /\ Deref(sse, sse.ptrs[n]).fixed
        /\ Deref(sse, sse.ptrs[n]).uid
               = Deref(InitialStore, InitialStore.ptrs[n]).uid

\* C5 witness: a remove has compacted the workplanes, which hold three
\* origin elements.
C5_Witness ==
    /\ last.op = "remove"
    /\ last.out[1] # -1
    /\ breakdown_index(last.args[1])[1] = 3

\* C6 as claimed: every 2D entity's sketch handle resolves to the sketch it
\* was created in; a 3D entity has no sketch handle.
C6_SketchHandleResolvesToOwner ==
    \A e \in Live(sse) :
        /\ is_2d(e) =>
               /\ Deref(sse, e.refs["sketch_i"]) # None
               /\ Deref(sse, e.refs["sketch_i"]).type = "SlvsSketch"
               /\ Deref(sse, e.refs["sketch_i"]).uid = e.owner
        /\ e.type \in {"SlvsPoint3D", "SlvsLine3D", "SlvsNormal3D",
                       "SlvsWorkplane", "SlvsSketch"}
               => "sketch_i" \notin DOMAIN e.refs

\* A handle after update_pointers(index_old, index_new).
Rewritten(h, index_old, index_new) == IF h = index_old THEN index_new ELSE h

\* C7: update_pointers(old, new) replaces old by new in every reference
\* field of every entity and in the sketch_index of every target object,
\* and leaves every other reference field, and everything else, as it was.
C7_RewriteIsExhaustiveAndExact ==
    [][last'.op = "update_pointers" =>
         LET index_old == last'.args[1]
             index_new == last'.args[2]
         IN  /\ sse'.ptrs = sse.ptrs
             /\ \A t \in TypeIndices :
                    /\ Len(sse'.slabs[t]) = Len(sse.slabs[t])
                    /\ \A n \in 1 .. Len(sse.slabs[t]) :
                           LET e1 == sse.slabs[t][n]
                               e2 == sse'.slabs[t][n]
                           IN  /\ e2.uid = e1.uid
                               /\ e2.slvs_index = e1.slvs_index
                               /\ e2.origin = e1.origin
                               /\ e2.fixed = e1.fixed
                               /\ DOMAIN e2.refs = RefFields(e1.type)
                               /\ \A f \in RefFields(e1.type) :
                                      e2.refs[f] = Rewritten(e1.refs[f],
                                                             index_old, index_new)
                               /\ (e1.target_object = None)
                                      = (e2.target_object = None)
                               /\ e1.target_object # None =>
                                      e2.target_object.sketch_index
                                          = Rewritten(e1.target_object.sketch_index,
                                                      index_old, index_new)]_vars

\* C7 witness: update_pointers was called with two different handles, and
\* an arc's centre and the sketch_index of a target object hold the new one
\* while another field of the arc holds a third handle.
C7_Witness ==
    /\ last.op = "update_pointers"
    /\ last.args[1] # last.args[2]
    /\ \E a \in Items(sse, 8) :
           /\ a.refs["ct_i"] = last.args[2]
           /\ a.refs["nm_i"] # last.args[2]
    /\ \E k \in Items(sse, 4) :
           /\ k.target_object # None
           /\ k.target_object.sketch_index = last.args[2]
           /\ k.slvs_index # last.args[2]

\* C8: for every type index k below 16 and slot index s below 2^20 the
\* handle is k * 2^20 + s (k shifted left by 20 bits, OR s), which is not
\* negative and is the handle of no other pair, and breakdown gives back
\* <<k, s>>.
C8_CodecRoundTrip ==
    [][/\ last'.op = "assemble_index" =>
              /\ last'.out[1] = last'.args[1] * 1048576 + last'.args[2]
              /\ last'.out[1] >= 0
              /\ \A k \in 0 .. 15, s \in SlotSamples :
                     assemble_index(k, s) = last'.out[1] => <<k, s>> = last'.args
       /\ last'.op = "breakdown_index" =>
              /\ last.op = "assemble_index"
              /\ last'.out = last.args]_vars

\* C8 witness: the handle of the last type index of four bits and of the
\* last slot of 20 bits was assembled and broken down.
C8_Witness ==
    /\ last.op = "breakdown_index"
    /\ last.out = <<15, 1048575>>
    /\ last.args = <<16777215>>

\* C9: get(h) raises nothing and changes nothing; it returns nothing when h
\* is -1, when h's type index names no collection, or when h's slot is at
\* or past the end of its collection, and otherwise the entity at that
\* slot of that collection.
C9_GetFindsOrReturnsNothing ==
    [][last'.op = "get" =>
         LET h == last'.args[1]
             t == h \div 1048576
             i == h % 1048576
         IN  /\ last'.raised = "none"
             /\ sse' = sse
             /\ IF h = -1 \/ t \notin 0 .. 9 \/ i >= Len(sse.slabs[t])
                THEN last'.ret = NoUid
                ELSE last'.ret = sse.slabs[t][i + 1].uid]_vars

\* C9 witness: get was called with the slot just past the end of a
\* collection that is not empty, and returned nothing.
C9_Witness ==
    /\ last.op = "get"
    /\ last.args[1] >= 0
    /\ breakdown_index(last.args[1])[1] \in TypeIndices
    /\ SlotOf(last.args[1]) = Len(SlabOf(sse, last.args[1]))
    /\ SlotOf(last.args[1]) > 0
    /\ last.ret = NoUid
    /\ last.raised = "none"

\* C10 as claimed: remove(h) with a handle that resolves to no live entity
\* leaves the store unchanged and raises no error.
C10_RemoveMissingIsSilent ==
    [][(last'.op = "remove" /\ get(sse, last'.args[1]) = None)
       => (sse' = sse /\ last'.raised = "none")]_vars

\* The handles of the entities of every collection, slot by slot.
Handles(st) ==
    [t \in TypeIndices |->
        [n \in 1 .. Len(st.slabs[t]) |-> st.slabs[t][n].slvs_index]]

\* C11: add_point_3d with a coordinate argument that has no length, or a
\* length other than 3, raises TypeError and appends nothing: the length
\* of every collection and every handle are as before (and so is every
\* other field of the store).
C11_BadCoIsRejectedUnapplied ==
    [][(last'.op = "add_point_3d" /\ last'.args[1] # 3)
       => /\ last'.raised = "TypeError"
          /\ last'.ret = NoUid
          /\ Handles(sse') = Handles(sse)
          /\ sse' = sse]_vars

\* C11 witness: add_point_3d was called with a co of length 2 on a store
\* that holds a point besides the origin, and raised.
C11_Witness ==
    /\ last.op = "add_point_3d"
    /\ last.args = <<2>>
    /\ last.raised = "TypeError"
    /\ Len(sse.slabs[0]) > 1

\* C12: an add_<kind> call that returns makes the collection of its kind
\* one longer and no other collection longer or shorter, leaves every
\* entity that was there as it was, handle and fields, at its slot, and
\* returns the added entity e, whose handle is that of no entity there
\* before and resolves to it: get(e.slvs_index) is e.
C12_AddAppendsOneAndResolves ==
    [][last'.op = "add" =>
         LET t == last'.ret[1]
             h == last'.out[1]
         IN  /\ \A k \in TypeIndices :
                    /\ Len(sse'.slabs[k]) =
                           Len(sse.slabs[k]) + (IF k = t THEN 1 ELSE 0)
                    /\ \A n \in 1 .. Len(sse.slabs[k]) :
                           sse'.slabs[k][n] = sse.slabs[k][n]
             /\ h \notin LiveHandles(sse)
             /\ get(sse', h) # None
             /\ get(sse', h).uid = last'.ret
             /\ get(sse', h).slvs_index = h
             /\ sse'.ptrs = sse.ptrs]_vars

\* C12 witness: a 2D line was added after the removal of a 2D point.
C12_Witness ==
    /\ last.op = "add"
    /\ last.ret[1] = 6
    /\ Len(sse.slabs[6]) = 1
    /\ sse.created[5] > Len(sse.slabs[5])

\* The entities of the store that are flagged origin.
OriginElements(st) == {e \in Live(st) : e.origin}

\* C13: the first call of ensure_origin_elements creates one 3D point,
\* three 3D normals and three workplanes and nothing else, each fixed and
\* flagged origin, and sets the seven pointers to them; every further call,
\* whatever was added or removed in between, leaves the store as it is:
\* nothing created, no pointer changed.
C13_EnsureOriginIsIdempotent ==
    [][last'.op = "ensure_origin_elements" =>
         IF last.op = "construct"
         THEN /\ \A t \in TypeIndices :
                     /\ Len(sse'.slabs[t]) = sse'.created[t]
                     /\ sse'.created[t] = (CASE t = 0 -> 1
                                              [] t = 2 -> 3
                                              [] t = 3 -> 3
                                              [] OTHER -> 0)
              /\ \A e \in Live(sse') : e.fixed /\ e.origin
              /\ {sse'.ptrs[n] : n \in OriginPointers} = LiveHandles(sse')
              /\ Cardinality(LiveHandles(sse')) = 7
         ELSE /\ sse' = sse
              /\ Cardinality(OriginElements(sse')) = 7]_vars

\* C13 witness: ensure_origin_elements was called again after a 3D normal
\* had been added, another removed, and a workplane added.
C13_Witness ==
    /\ last.op = "ensure_origin_elements"
    /\ sse.created[2] > Len(sse.slabs[2])
    /\ Len(sse.slabs[2]) > 3
    /\ Len(sse.slabs[3]) > 3

\* The own flag of e, or of an entity one of e's pointers resolves to, is
\* set.
OwnOrDirectDirty(st, e) ==
    \/ e.dirty
    \/ \E f \in DOMAIN e.refs :
           /\ get(st, e.refs[f]) # None
           /\ get(st, e.refs[f]).dirty

\* C14 as claimed: e.is_dirty is True exactly when the own flag of e, or
\* of an entity that e.dependencies() returns, is set; the flags of the
\* dependencies' dependencies make no difference.
C14_IsDirtyIsOwnOrDirect ==
    [][last'.op = "is_dirty" =>
         ((last'.raised = "none" /\ last'.out = <<TRUE>>)
          <=> OwnOrDirectDirty(sse, get(sse, last'.args[1])))]_vars

\* Every pointer of the entity with handle h resolves to an entity.
PointersResolve(st, h) ==
    \A f \in DOMAIN get(st, h).refs : get(st, get(st, h).refs[f]) # None

\* Where every pointer of e resolves, e.is_dirty returns, and returns
\* whether the own flag of e or of a direct dependency is set.
IsDirtyWhereResolved ==
    [][(last'.op = "is_dirty" /\ PointersResolve(sse, last'.args[1])) =>
         /\ last'.raised = "none"
         /\ last'.out = <<OwnOrDirectDirty(sse, get(sse, last'.args[1]))>>]_vars

\* The entity the last call was made on, by its position: the call moved
\* no entity.
Callee(st) == get(st, last'.args[1])

\* C15 as claimed: right after e.tag_update() e.is_dirty is True; right
\* after the rebuild in e.update() (not in background mode) e.is_dirty is
\* False, provided the own flag of none of e's direct dependencies is set.
C15_DirtyAfterTagCleanAfterUpdate ==
    [][/\ last'.op = "tag_update"
          => is_dirty(sse', Callee(sse')) = Return(TRUE)
       /\ (last'.op = "update" /\ last'.args[2] = 0
           /\ ~\E f \in DOMAIN Callee(sse').refs :
                  /\ get(sse', Callee(sse').refs[f]) # None
                  /\ get(sse', Callee(sse').refs[f]).dirty)
          => is_dirty(sse', Callee(sse')) = Return(FALSE)]_vars

\* Where every pointer of e resolves, both halves hold.
DirtyAfterTagWhereResolved ==
    [][/\ (last'.op = "tag_update" /\ PointersResolve(sse, last'.args[1]))
          => is_dirty(sse', Callee(sse')) = Return(TRUE)
       /\ (last'.op = "update" /\ last'.args[2] = 0
           /\ PointersResolve(sse, last'.args[1])
           /\ ~\E f \in DOMAIN Callee(sse').refs :
                  get(sse', Callee(sse').refs[f]).dirty)
          => is_dirty(sse', Callee(sse')) = Return(FALSE)]_vars

\* The own flags of the entities of every collection, slot by slot.
Flags(st) ==
    [t \in TypeIndices |->
        [n \in 1 .. Len(st.slabs[t]) |-> st.slabs[t][n].dirty]]

\* C16 as claimed: e.tag_update(), when it returns, has set the own flag
\* of e, whatever the flags of e's dependencies, and changed the own flag
\* of no other entity.
C16_TagUpdateSetsOwnFlag ==
    [][(last'.op = "tag_update" /\ last'.raised = "none") =>
         /\ Callee(sse').dirty
         /\ \A t \in TypeIndices : \A n \in 1 .. Len(sse.slabs[t]) :
                sse.slabs[t][n].slvs_index # last'.args[1]
                => Flags(sse')[t][n] = Flags(sse)[t][n]]_vars

\* e.tag_update() changes the own flag of no other entity, and sets that
\* of e unless e.is_dirty was True already.
TagUpdateSetsOwnFlagUnlessDirty ==
    [][(last'.op = "tag_update" /\ last'.raised = "none") =>
         /\ Callee(sse').dirty \/ is_dirty(sse, Callee(sse)) = Return(TRUE)
         /\ \A t \in TypeIndices : \A n \in 1 .. Len(sse.slabs[t]) :
                sse.slabs[t][n].slvs_index # last'.args[1]
                => Flags(sse')[t][n] = Flags(sse)[t][n]]_vars

\* The handles hs list entities of st by kind and, within a kind, in the
\* order they were created.
InKindAndCreationOrder(st, hs) ==
    \A i \in 1 .. Len(hs), j \in 1 .. Len(hs) :
        i < j =>
            \/ get(st, hs[i]).uid[1] < get(st, hs[j]).uid[1]
            \/ /\ get(st, hs[i]).uid[1] = get(st, hs[j]).uid[1]
               /\ get(st, hs[i]).uid[2] < get(st, hs[j]).uid[2]

\* The handles hs list every live entity of st, once.
ListsLiveOnce(st, hs) ==
    /\ {hs[n] : n \in 1 .. Len(hs)} = LiveHandles(st)
    /\ Len(hs) = Cardinality(LiveHandles(st))

\* C17 as claimed: whatever was added, removed and selected before, all,
\* selected and selected_active, when they return, list entities by kind
\* and, within a kind, in creation order, and all lists every live entity
\* once.
C17_SequencesInKindAndCreationOrder ==
    [][(last'.op \in {"all", "selected", "selected_active"}
        /\ last'.raised = "none") =>
         /\ InKindAndCreationOrder(sse, last'.out)
         /\ last'.op = "all" => ListsLiveOnce(sse, last'.out)]_vars

\* all lists every live entity once, by kind and within a kind by slot.
AllListsLiveOnceBySlot ==
    [][last'.op = "all" =>
         /\ last'.raised = "none"
         /\ ListsLiveOnce(sse, last'.out)
         /\ \A i \in 1 .. Len(last'.out), j \in 1 .. Len(last'.out) :
                i < j => last'.out[i] < last'.out[j]]_vars

\* The uid of the entity of st whose handle is h (NoUid: there is none).
UidAt(st, h) ==
    IF \E e \in Live(st) : e.slvs_index = h
    THEN (CHOOSE e \in Live(st) : e.slvs_index = h).uid
    ELSE NoUid

\* C18 as claimed: whatever the earlier order of the classes was, after
\* recalc_pointers every entity has the handle of its class's type index
\* and of the slot it is at, and every reference field of every entity
\* resolves to the entity it referred to before the call.
C18_RecalcKeepsReferences ==
    [][last'.op = "recalc_pointers" =>
         \A t \in TypeIndices : \A n \in 1 .. Len(sse.slabs[t]) :
             /\ sse'.slabs[t][n].uid = sse.slabs[t][n].uid
             /\ sse'.slabs[t][n].slvs_index = t * 1048576 + (n - 1)
             /\ \A f \in DOMAIN sse.slabs[t][n].refs :
                    UidOf(get(sse', sse'.slabs[t][n].refs[f]))
                    = UidAt(sse, sse.slabs[t][n].refs[f])]_vars

\* After recalc_pointers every entity has the handle of its class's type
\* index and of the slot it is at; and when the earlier order only lacked
\* a class that has since been inserted, every reference resolves as
\* before.
RecalcKeepsReferencesAfterInsertion ==
    [][last'.op = "recalc_pointers" =>
         \A t \in TypeIndices : \A n \in 1 .. Len(sse.slabs[t]) :
             /\ sse'.slabs[t][n].uid = sse.slabs[t][n].uid
             /\ sse'.slabs[t][n].slvs_index = t * 1048576 + (n - 1)
             /\ last'.args \in {<<0, 1, 2, 3, 4, 5, 6, 7, 8, 9>>,
                                <<0, 15, 1, 2, 3, 4, 5, 6, 7, 8>>}
                => \A f \in DOMAIN sse.slabs[t][n].refs :
                      UidOf(get(sse', sse'.slabs[t][n].refs[f]))
                      = UidAt(sse, sse.slabs[t][n].refs[f])]_vars

\* C19: when register() has returned, global_data.registered is True
\* exactly when py_slvs was found and register_full() completed; when it
\* was not found, the base is registered all the same, register_full()
\* was not called and the flag is False; and unregister() calls
\* unregister_full() only if the flag is True.
C19_FlagTellsFullRegistration ==
    [][/\ (last'.op = "register" /\ last'.raised = "none") =>
            /\ global_data'.registered
                 = (last'.args[1] = 1 /\ bpy'.full = "complete")
            /\ bpy'.base /\ bpy'.presets /\ bpy'.icons
            /\ last'.args[1] = 0 =>
                   (~global_data'.registered /\ bpy'.full = bpy.full)
       /\ (last'.op = "unregister" /\ last'.out = <<1>>) =>
            global_data.registered]_vars

\* C19 witness: the add-on was enabled, a 3D point added, the add-on
\* disabled and enabled again, now without the solver: the base is
\* registered, the flag is False.
C19_Witness ==
    /\ last.op = "register"
    /\ last.args[1] = 0
    /\ last.raised = "none"
    /\ bpy.base
    /\ ~global_data.registered
    /\ Len(sse.slabs[0]) > 1

\* The segments that have the point of handle h as an end point, by the
\* handles they hold.
SegmentsAt(st, h) ==
    {e \in Items(st, 6) \cup Items(st, 8) :
         e.refs["p1_i"] = h \/ e.refs["p2_i"] = h}

\* The geometry of every segment at the point is defined: its end points
\* and, of an arc, its centre are entities.
SegmentsDefined(st, h) ==
    \A e \in SegmentsAt(st, h) :
        /\ Deref(st, e.refs["p1_i"]) # None
        /\ Deref(st, e.refs["p2_i"]) # None
        /\ e.type # "SlvsLine2D" => Deref(st, e.refs["ct_i"]) # None

\* Candidate code c lies in the valid domain of every segment at the
\* point: of the first listed segment if that is an arc (bit 1), of the
\* second if that is an arc (bit 2); lines are listed before arcs.
InBothDomains(st, h, c) ==
    LET arcs == Cardinality(SegmentsAt(st, h) \cap Items(st, 8))
    IN  /\ arcs = 2 => c % 2 = 1
        /\ arcs >= 1 => (c \div 2) % 2 = 1

\* The three cases of failure of a call main(point h; projections
\* defined d1, d2; candidates cs) on the store st.
NotTwoSegments(st, h) == Cardinality(SegmentsAt(st, h)) # 2

NoValidCandidate(st, h, cs) ==
    /\ Cardinality(SegmentsAt(st, h)) = 2
    /\ SegmentsDefined(st, h)
    /\ \A n \in 1 .. Len(cs) : ~InBothDomains(st, h, cs[n])

ProjectionUndefined(st, h, d1, d2, cs) ==
    LET arcs == Cardinality(SegmentsAt(st, h) \cap Items(st, 8))
    IN  /\ Cardinality(SegmentsAt(st, h)) = 2
        /\ SegmentsDefined(st, h)
        /\ \E n \in 1 .. Len(cs) : InBothDomains(st, h, cs[n])
        /\ \/ arcs = 2 /\ d1 = 0
           \/ arcs >= 1 /\ d2 = 0

DistanceOf(c) == c \div 4

\* C21: the centre main chooses is one of the candidate intersections that
\* lie in the valid domain of both segments (a line accepts every
\* candidate) and none of those is nearer to the shared point, so that a
\* nearer candidate outside either domain is skipped; main chooses one
\* whenever such a candidate exists.
C21_CentreIsNearestInBothDomains ==
    [][last'.op = "main" =>
           LET h == last'.args[1]
               cs == SubSeq(last'.args, 5, Len(last'.args))
               valid == {n \in 1 .. Len(cs) : InBothDomains(sse, h, cs[n])}
               chosen == last'.out[2]
           IN  /\ chosen # 0 =>
                      /\ \E n \in valid : cs[n] = chosen
                      /\ \A n \in valid : DistanceOf(cs[n]) >= DistanceOf(chosen)
               /\ (Cardinality(SegmentsAt(sse, h)) = 2 /\ SegmentsDefined(sse, h)
                      /\ valid # {})
                  => chosen # 0]_vars

\* main has succeeded with a centre that is not the nearest candidate: a
\* nearer one, found after it, lies outside an arc.
C21_Witness ==
    /\ last.op = "main"
    /\ last.out[1] = 1
    /\ Len(last.args) = 6
    /\ last.out[2] = last.args[5]
    /\ DistanceOf(last.args[6]) < DistanceOf(last.args[5])

\* The step is a successful main, and the step is the fini that follows
\* one.
MainSucceeds == last'.op = "main" /\ last'.raised = "none" /\ last'.out[1] = 1

FiniAfterSuccess == last'.op = "fini" /\ last.out[1] = 1

\* In store st the end point of the segment with uid seg that was the
\* point of handle h in store before is the entity with uid tangent.
EndPointReplaced(before, st, seg, h, tangent) ==
    \E f \in {"p1_i", "p2_i"} :
        /\ ByUid(before, seg).refs[f] = h
        /\ UidAt(st, ByUid(st, seg).refs[f]) = tangent

\* C22: a successful main adds to the store exactly one arc and three 2D
\* points, the arc's centre and its two end points, and changes no entity
\* there was; after the fini that follows, each of the two connected
\* segments has an end point that was the shared point replaced by its
\* own tangent point, the first segment by the first and the second by the
\* second, and these are the end points of the arc.
C22_BevelAddsArcAndReplacesEndPoints ==
    [][/\ MainSucceeds =>
              /\ \A t \in TypeIndices :
                     /\ Len(sse'.slabs[t])
                          = Len(sse.slabs[t])
                              + (IF t = 5 THEN 3 ELSE IF t = 8 THEN 1 ELSE 0)
                     /\ SubSeq(sse'.slabs[t], 1, Len(sse.slabs[t]))
                          = sse.slabs[t]
              /\ {last'.out[n] : n \in 5 .. 7}
                   = {sse'.slabs[5][n].slvs_index :
                          n \in Len(sse.slabs[5]) + 1 .. Len(sse'.slabs[5])}
              /\ last'.out[8] = LastOf(sse', 8).slvs_index
              /\ LastOf(sse', 8).refs["ct_i"] = last'.out[5]
              /\ LastOf(sse', 8).refs["p1_i"] = last'.out[6]
              /\ LastOf(sse', 8).refs["p2_i"] = last'.out[7]
       /\ FiniAfterSuccess =>
              LET point == last.args[1]
                  seg1 == UidAt(sse, last.out[3])
                  seg2 == UidAt(sse, last.out[4])
                  tangent1 == UidAt(sse, last.out[6])
                  tangent2 == UidAt(sse, last.out[7])
                  arc == ByUid(sse', UidAt(sse, last.out[8]))
              IN  /\ last'.raised = "none"
                  /\ EndPointReplaced(sse, sse', seg1, point, tangent1)
                  /\ EndPointReplaced(sse, sse', seg2, point, tangent2)
                  /\ UidAt(sse', arc.refs["p1_i"]) = tangent1
                  /\ UidAt(sse', arc.refs["p2_i"]) = tangent2]_vars

\* fini has run after a successful main on a point between two lines, has
\* removed the point, and the second tangent point has moved to the
\* point's slot.
C22_Witness ==
    /\ last.op = "fini"
    /\ last.args[1] = 1
    /\ last.raised = "none"
    /\ Len(sse.slabs[8]) = 1
    /\ Len(sse.slabs[6]) = 2
    /\ LastOf(sse, 8).refs["p2_i"] = last.args[2]
    /\ \A n \in 1 .. 2 : sse.slabs[6][n].refs["p1_i"] # sse.slabs[6][n].refs["p2_i"]

\* The coordinate x rounded to the precision of overlaps_endpoint: the
\* nearest multiple of ten, the even one of two equally near.
Rounded(x) ==
    CHOOSE m \in {10 * k : k \in (x \div 10) .. (x \div 10) + 1} :
        \A n \in {10 * k : k \in (x \div 10) .. (x \div 10) + 1} :
            \/ m = n
            \/ (IF m > x THEN m - x ELSE x - m) < (IF n > x THEN n - x ELSE x - n)
            \/ /\ (IF m > x THEN m - x ELSE x - m) = (IF n > x THEN n - x ELSE x - n)
               /\ (m \div 10) % 2 = 0

\* C23: intersect of two lines returns the empty result when
\* intersect_line_line_2d finds no intersection or when the intersection,
\* rounded to 5 digits, equals the rounded p1 or p2 of either line, and
\* otherwise returns exactly the intersection.
C23_IntersectDropsEndPoints ==
    last.op = "intersect" =>
        LET value == SubSeq(last.args, 9, Len(last.args))
            ends == {SubSeq(last.args, 2 * n - 1, 2 * n) : n \in 1 .. 4}
            empty ==
                \/ value = <<>>
                \/ \E v \in ends :
                       /\ Rounded(value[1]) = Rounded(v[1])
                       /\ Rounded(value[2]) = Rounded(v[2])
        IN  last.out = IF empty THEN <<>> ELSE value

\* intersect has returned nothing for an intersection that differs from
\* every end point and rounds to the second end point of the other line
\* only, and by a tie.
C23_Witness ==
    /\ last.op = "intersect"
    /\ Len(last.args) = 10
    /\ last.out = <<>>
    /\ \A n \in 1 .. 4 :
           SubSeq(last.args, 2 * n - 1, 2 * n) # SubSeq(last.args, 9, 10)
    /\ \A n \in 1 .. 3 :
           Rounded(last.args[2 * n - 1]) # Rounded(last.args[9])
    /\ last.args[9] = 5
    /\ last.args[7] = 4

\* The routine for a pair of element types.
RoutineFor(types) ==
    IF types = {ElementTypes.Line} THEN "intersect_line_line_2d"
    ELSE IF types = {ElementTypes.Sphere} THEN "intersect_sphere_sphere_2d"
    ELSE "intersect_line_sphere_2d"

\* Call c is the one call for the elements a and b: the routine matches
\* their types and gets both geometries, a line's before a sphere's.
IsCallFor(c, a, b) ==
    /\ c.func = RoutineFor({a[1], b[1]})
    /\ <<c.first, c.second>> \in {<<a, b>>, <<b, a>>}
    /\ a[1] # b[1] => c.first[1] = ElementTypes.Line

\* The calls made for a list are one call for every pair of positions, in
\* the order of the pairs.
PairsOf(n) == {<<i, j>> \in (1 .. n) \X (1 .. n) : i < j}

CallsCoverPairs(element_list, calls) ==
    /\ Len(calls) = Cardinality(PairsOf(Len(element_list)))
    /\ \E at \in [PairsOf(Len(element_list)) -> 1 .. Len(calls)] :
           /\ \A p, q \in PairsOf(Len(element_list)) : at[p] = at[q] => p = q
           /\ \A p \in PairsOf(Len(element_list)) :
                  IsCallFor(calls[at[p]], element_list[p[1]], element_list[p[2]])

\* C24: for every pair of the elements given, _get_intersections calls the
\* routine of the pair's types exactly once, and for a line and a sphere
\* it passes the line's geometry first, whatever their order in the list.
C24_OneCallPerPairLineFirst ==
    last.op = "_get_intersections" => CallsCoverPairs(last.args, last.out)

\* In the list no sphere comes before a line.
LinesFirst(element_list) ==
    \A i, j \in 1 .. Len(element_list) :
        (i < j /\ element_list[j][1] = ElementTypes.Line)
            => element_list[i][1] = ElementTypes.Line

\* Where the lines come first in the list, as in the list main makes of
\* the segments its lines-then-arcs search finds, there is one call per
\* pair with the line's geometry first.
OneCallPerPairWhereLinesFirst ==
    (last.op = "_get_intersections" /\ LinesFirst(last.args))
        => CallsCoverPairs(last.args, last.out)

\* The fields of live entities of st that hold the handle h, as pairs of
\* the entity's uid and the field's name.
HoldersOf(st, h) ==
    UNION {{<<e.uid, f>> : f \in {g \in DOMAIN e.refs : e.refs[g] = h}} :
           e \in Live(st)}

\* C25: a fini that follows a main that did not succeed changes neither
\* the entities nor the constraints and calls nothing; one that follows a
\* successful main calls replace_point twice, then add_tangent twice,
\* then remove if (and only if) after those calls no entity and no
\* constraint holds the shared point, and solve_system last.
C25_FiniOrder ==
    [][last'.op = "fini" =>
           IF last.out[1] = 0
           THEN sse' = sse /\ ssc' = ssc /\ last'.out = <<>>
           ELSE LET point == last.args[1]
                    removed == ByUid(sse', last.ret) = None
                    tangents == {UidAt(sse, last.out[6]), UidAt(sse, last.out[7])}
                IN  /\ last'.out
                         = <<"replace_point", "replace_point",
                             "add_tangent", "add_tangent">>
                           \o (IF removed THEN <<"remove">> ELSE <<>>)
                           \o <<"solve_system">>
                    /\ Len(ssc') = Len(ssc) + 2
                    /\ SubSeq(ssc', 1, Len(ssc)) = ssc
                    /\ removed =>
                           /\ \A x \in HoldersOf(sse, point) :
                                  UidAt(sse', ByUid(sse', x[1]).refs[x[2]])
                                      \in tangents
                           /\ \A n \in 1 .. Len(ssc') :
                                  point \notin {ssc'[n].entity1_i,
                                                ssc'[n].entity2_i,
                                                ssc'[n].sketch_i}
                    /\ ~removed => HoldersOf(sse', point) # {}]_vars

\* fini has run after a successful main and has left the shared point in
\* the store, which the centre pointer of an arc still holds.
C25_Witness ==
    /\ last.op = "fini"
    /\ last.args[1] = 1
    /\ "remove" \notin {last.out[n] : n \in 1 .. Len(last.out)}
    /\ \E x \in HoldersOf(sse, last.args[2]) : x[2] = "ct_i"

\* The step is a main that returned False.
MainFails == last'.op = "main" /\ last'.raised = "none" /\ last'.out[1] = 0

\* C26: a main that fails leaves the entity store as it was: no entity is
\* added and no pointer changed.
C26_FailedMainLeavesStore ==
    [][MainFails => sse' = sse]_vars

\* A main that fails before it has chosen a centre, for the number of
\* connected segments or for want of a valid intersection, leaves the
\* store as it was; one that fails for an undefined projection has added
\* the centre point and nothing else.
FailedMainAddsAtMostCentre ==
    [][MainFails =>
           IF last'.out[2] = 0
           THEN sse' = sse
           ELSE /\ sse'.slabs = [sse.slabs EXCEPT
                                    ![5] = Append(@, LastOf(sse', 5))]
                /\ LastOf(sse', 5).slvs_index = last'.out[5]]_vars

\* C27: an entity on which tag_update has been called and which has not
\* been rebuilt since (update of the entity itself, which clears its own
\* flag) reports is_dirty, whatever has been done to its dependencies.
C27_TaggedStaysDirty ==
    \A e \in Live(sse) : e.tagged => is_dirty(sse, e) = Return(TRUE)

\* An entity whose own flag tag_update has set reports is_dirty until it
\* is rebuilt itself: the own flag is cleared by no other call.
OwnFlagStaysUntilRebuilt ==
    [][\A e \in Live(sse) :
           (e.dirty /\ ByUid(sse', e.uid) # None
              /\ ~(last'.op = "update" /\ last'.ret = e.uid))
           => ByUid(sse', e.uid).dirty]_vars

\* The step is a remove that returned.
RemoveReturned == last'.op = "remove" /\ last'.raised = "none"

\* The uid of the entity remove(h) deleted in this step (NoUid: h named an
\* origin element, and nothing was deleted).
RemovedUid ==
    IF get(sse, last'.args[1]).origin THEN NoUid
    ELSE get(sse, last'.args[1]).uid

\* Reference field f of the entity that was e1 before the step resolves
\* after it to the entity it resolved to before, or to nothing if that was
\* the removed entity.
KeepsTarget(e1, f) ==
    LET e2 == ByUid(sse', e1.uid)
        before == UidOf(get(sse, e1.refs[f]))
        after == UidOf(get(sse', e2.refs[f]))
    IN  IF before # NoUid /\ before = RemovedUid
        THEN after = NoUid
        ELSE after = before

\* C28: remove(h) never makes a surviving reference resolve to a different
\* entity: each reference field of every entity other than the removed one
\* resolves after the call to the same entity as before, or to nothing if
\* it referenced the removed entity.
C28_RemoveKeepsReferenceTargets ==
    [][RemoveReturned =>
         \A e1 \in Live(sse) :
             e1.uid # RemovedUid => \A f \in DOMAIN e1.refs : KeepsTarget(e1, f)]_vars

\* Where no reference field holds h, or h was the last slot of its
\* collection, remove(h) keeps what every reference field resolves to.
RemoveKeepsTargetsUnlessHeldAndMoved ==
    [][(RemoveReturned
        /\ (last'.out[1] = -1
            \/ \A e \in Live(sse) : last'.args[1] \notin HeldIn(e))) =>
         \A e1 \in Live(sse) :
             e1.uid # RemovedUid => \A f \in DOMAIN e1.refs : KeepsTarget(e1, f)]_vars

\* C29: after remove(h) has moved the last entity of a collection into
\* slot h, the batch read under handle h is not the removed entity's
\* unless the moved entity reports is_dirty.
C29_MovedEntityNotDrawnFromRemovedBatch ==
    [][RemoveMoved =>
         LET h == last'.args[1]
             moved == get(sse', h)
         IN  _batch(global_data', moved) = batch_for_shader(get(sse, h))
             => is_dirty(sse', moved) = Return(TRUE)]_vars

\* remove leaves the batches as they are: what is read under h after the
\* move is what was read under it before.
RemoveLeavesBatches ==
    [][RemoveMoved =>
         /\ global_data'.batches = global_data.batches
         /\ _batch(global_data', get(sse', last'.args[1]))
            = _batch(global_data, get(sse, last'.args[1]))]_vars

\* Handle h resolves to the live entity with uid u.
ResolvesTo(st, h, u) == get(st, h) # None /\ get(st, h).uid = u

\* C30: after any select, hover, add and remove operations the selection
\* holds no handle twice, and every handle in it, and the hover handle
\* unless it is -1, resolves to the live entity that was selected or
\* hovered.
C30_SelectionAndHoverResolve ==
    LET gd == global_data
    IN  /\ \A i \in 1 .. Len(gd.selected), j \in 1 .. Len(gd.selected) :
               i # j => gd.selected[i] # gd.selected[j]
        /\ \A i \in 1 .. Len(gd.selected) :
               ResolvesTo(sse, gd.selected[i], gd.selected_uid[i])
        /\ gd.hover # -1 => ResolvesTo(sse, gd.hover, gd.hover_uid)

\* The selection holds no handle twice.
SelectionHasNoDuplicate ==
    \A i \in 1 .. Len(global_data.selected), j \in 1 .. Len(global_data.selected) :
        i # j => global_data.selected[i] # global_data.selected[j]

\* No step but a remove changes what a selected handle or the hover handle
\* resolves to, and remove leaves the selection and the hover handle as
\* they are.
OnlyRemoveUnbindsSelection ==
    [][/\ last'.op = "remove" =>
            /\ global_data'.selected = global_data.selected
            /\ global_data'.hover = global_data.hover
       /\ (last'.op # "remove" /\ C30_SelectionAndHoverResolve)
            => C30_SelectionAndHoverResolve']_vars

\* do_versioning migrates the scene: its version is set and not newer
\* than the add-on's.
Migrated(props) ==
    props.version_set /\ ~VersionLess(get_addon_version, props.version)

\* C31: do_versioning changes only scenes whose stored version is set and
\* not newer than the add-on's, and the migration of a scene adds
\* entities and edits constraints only in that scene: the entities and
\* origin pointers of a scene change only if that scene is migrated from a
\* version before 0.23.0, its constraints only if it is migrated from a
\* version before 0.26.0.
C31_VersioningChangesOnlyMigratedScene ==
    [][last'.op = "do_versioning" =>
         \A j \in 1 .. Len(data.scenes) :
             LET props == data.scenes[j]
             IN  /\ ~(Migrated(props) /\ VersionLess(props.version, <<0, 23, 0>>))
                    => data'.scenes[j].entities = props.entities
                 /\ ~(Migrated(props) /\ VersionLess(props.version, <<0, 26, 0>>))
                    => data'.scenes[j].angle = props.angle]_vars

\* What do_versioning does change: entities are added to context.scene
\* only and constraints edited in context.scene only, origin pointers are
\* set only in scenes migrated from a version before 0.23.0, and no
\* scene's version is written.
VersioningChangesContextScene ==
    [][last'.op = "do_versioning" =>
         \A j \in 1 .. Len(data.scenes) :
             LET props == data.scenes[j]
                 after == data'.scenes[j]
             IN  /\ after.version = props.version
                 /\ after.version_set = props.version_set
                 /\ j # data.context_scene
                    => /\ after.entities.slabs = props.entities.slabs
                       /\ after.angle = props.angle
                 /\ ~(Migrated(props) /\ VersionLess(props.version, <<0, 23, 0>>))
                    => after.entities.ptrs = props.entities.ptrs]_vars

\* Every origin-flagged entity of store st is the target of one of the
\* store's origin pointers.
OriginFlaggedAreTargets(st) ==
    \A e \in Live(st) :
        e.origin => \E name \in OriginPointers : st.ptrs[name] = e.slvs_index

\* The origin-flagged entities of collection t of store st.
OriginFlagged(st, t) == {e \in Items(st, t) : e.origin}

\* C32: in every reachable state, after do_versioning too, each
\* origin-flagged entity is the target of one of its store's seven origin
\* pointers, so a store holds at most one origin point, three origin
\* normals and three origin workplanes.
C32_OriginFlaggedAreTargets ==
    \A j \in 1 .. Len(data.scenes) :
        LET st == data.scenes[j].entities
        IN  /\ OriginFlaggedAreTargets(st)
            /\ Cardinality(OriginFlagged(st, 0)) <= 1
            /\ Cardinality(OriginFlagged(st, 2)) <= 3
            /\ Cardinality(OriginFlagged(st, 3)) <= 3

\* Without do_versioning every origin-flagged entity of the scene's store
\* is the target of an origin pointer.
OriginFlaggedAreTargetsInScene == OriginFlaggedAreTargets(sse)

\* In the scene context.scene itself ensure_origin_elements(context) is
\* ensure_origin_elements of its store.
EnsureOfContextScene ==
    \A own \in BOOLEAN :
        LET c == data.context_scene
        IN  EnsureOriginElementsOf(data.scenes, c, c, own)[c].entities
            = ensure_origin_elements(data.scenes[c].entities)

====
